---- MODULE Spec2Model ----
(***************************************************************************)
(* Activity / audit logging engine of the Nillion browser extension        *)
(* (services/activityLogger): the collection kept under one storage key,   *)
(* its lifecycle operations and the callers' view of them.                  *)
(***************************************************************************)
EXTENDS Integers, Sequences, FiniteSets, TLC

\* ------------------------------------------------------------------ bounds
\* Fresh ids (uuidv4 results) handed out in one behaviour.
MaxIds == 2
\* Date.now() ranges over 0..MaxClock.
MaxClock == 1
\* addSubStep is not called once the collection holds this many sub-steps.
MaxSteps == 2
\* The longest collection the queries and statistics are run on at start.
MaxStored == 3
MaxHeld == 2

\* ------------------------------------------------------- program constants
MAX_LOGS == 1000
\* NillionService.logActivity keeps the last 100 entries of the same key
SERVICE_MAX_LOGS == 100

\* ------------------------------------------------------------ JS values
\* An optional field: Undefined when absent, Some(v) when it holds v.
Undefined == <<>>
Some(v) == <<v>>
IsDefined(o) == o /= <<>>

Min(a, b) == IF a < b THEN a ELSE b

ActivityType ==
  { "IDENTITY_CREATED", "IDENTITY_IMPORTED", "IDENTITY_EXPORTED",
    "DOCUMENT_CREATED", "DOCUMENT_READ", "DOCUMENT_DELETED",
    "PERMISSION_GRANTED", "PERMISSION_REVOKED", "COLLECTION_VIEWED",
    "APP_CONNECTED", "APP_DISCONNECTED", "AUTOFILL_EXECUTED",
    "DATA_EXPORTED", "SECURITY_CHANGED" }

LogStatus == { "success", "failed", "warning" }
SubStepStatus == { "pending", "in_progress", "completed", "failed" }

\* ------------------------------------------------------------ variables
VARIABLES
  storage,  \* browser.storage.local under STORAGE_KEY: Undefined or Some(logs)
  now,      \* Date.now()
  nextId,   \* the next value uuidv4() returns
  ret,      \* the last call: operation, id (argument or result), status
            \* argument, outcome, whether it wrote
  run,      \* the start / sub-steps / complete sequence under way, if any
  calls,    \* per caller, the call suspended between its get and its set
  model,    \* the list the calls made so far amount to, applied in turn
  tab,      \* the state of the ActivityLogTab component: the logs it loaded,
            \* the filter inputs and the filtered logs it shows
  kv        \* browser.storage.local under its other keys: per key,
            \* Undefined or Some(value)

vars == << storage, now, nextId, ret, run, calls, model, tab, kv >>

\* ------------------------------------------------------------ pure parts
\* result[STORAGE_KEY] || []
Load(st) == IF IsDefined(st) THEN st[1] ELSE << >>

\* Array.prototype.slice(0, n)
Slice(logs, n) == SubSeq(logs, 1, Min(n, Len(logs)))

\* the ActivityLog object literal of logActivity
NewLog(id, t, type, description, details, userDid, subSteps, status) ==
  [ id |-> id, timestamp |-> t, type |-> type, description |-> description,
    status |-> status, details |-> details, userDid |-> userDid,
    subSteps |-> subSteps, duration |-> Undefined, metadata |-> Undefined ]

\* Unshift adding at the end: logs.push(log) in place of logs.unshift(log)
UnshiftPushes(logs, log) == Append(logs, log)

\* logs.unshift(log)
Unshift(logs, log) == << log >> \o logs

\* Retain keeping the tail: logs.slice(1) in place of logs.slice(0, MAX_LOGS)
RetainDropsNewest(logs) ==
  IF Len(logs) > MAX_LOGS THEN SubSeq(logs, 2, Len(logs)) ELSE logs

\* if (logs.length > MAX_LOGS) logs = logs.slice(0, MAX_LOGS)
Retain(logs) == IF Len(logs) > MAX_LOGS THEN Slice(logs, MAX_LOGS) ELSE logs

\* what logActivity hands to storage.set, from the logs it read
LogActivityWrite(logs, log) == Retain(Unshift(logs, log))

\* logs.findIndex(log => log.id === logId), 1-based; 0 stands for -1
FindIndex(logs, logId) ==
  IF \E i \in 1..Len(logs) : logs[i].id = logId
  THEN CHOOSE i \in 1..Len(logs) :
         /\ logs[i].id = logId
         /\ \A j \in 1..(i - 1) : logs[j].id /= logId
  ELSE 0

\* log[f]: a property the object does not have reads as undefined
Get(log, f) == IF f \in DOMAIN log THEN log[f] ELSE Undefined

\* log.subSteps || []
StepsOf(log) ==
  IF IsDefined(Get(log, "subSteps")) THEN log.subSteps[1] ELSE << >>

\* the number of sub-steps the collection holds
TotalSteps(logs) ==
  Cardinality(UNION { { << i, k >> : k \in 1..Len(StepsOf(logs[i])) } :
                      i \in 1..Len(logs) })

\* NextOrder counting from 0: subSteps.length in place of subSteps.length + 1
NextOrderZeroBased(subSteps) == Len(subSteps)

\* the order addSubStep gives the new sub-step
NextOrder(subSteps) == Len(subSteps) + 1

\* the ActivitySubStep object literal of addSubStep
NewSubStep(subSteps, description, status, details, t) ==
  [ order |-> NextOrder(subSteps), description |-> description,
    timestamp |-> t, status |-> status, details |-> details ]

\* AddSubStepWrite putting the new step first: [newSubStep, ...subSteps]
AddSubStepWritePrepends(logs, i, description, status, details, t) ==
  [ logs EXCEPT ![i].subSteps =
      Some(<< NewSubStep(StepsOf(logs[i]), description, status, details, t) >>
           \o StepsOf(logs[i])) ]

\* AddSubStepWrite reopening the record: the duration is cleared as well
AddSubStepWriteReopens(logs, i, description, status, details, t) ==
  [ logs EXCEPT ![i].subSteps =
      Some(Append(StepsOf(logs[i]),
                  NewSubStep(StepsOf(logs[i]), description, status, details, t))),
                ![i].duration = Undefined ]

\* logs[logIndex].subSteps = [...subSteps, newSubStep]
AddSubStepWrite(logs, i, description, status, details, t) ==
  [ logs EXCEPT ![i].subSteps =
      Some(Append(StepsOf(logs[i]),
                  NewSubStep(StepsOf(logs[i]), description, status, details, t))) ]

\* Duration measured from the last sub-step when there is one
DurationSinceLastStep(log, t) ==
  IF StepsOf(log) = << >>
  THEN t - log.timestamp
  ELSE t - StepsOf(log)[Len(StepsOf(log))].timestamp

\* const duration = Date.now() - log.timestamp
Duration(log, t) == t - log.timestamp

\* CompleteWrite restamping the record: timestamp becomes the completion time
CompleteWriteRestamps(logs, i, status, t) ==
  [ logs EXCEPT ![i] =
      [ logs[i] EXCEPT !.status = status,
                       !.duration = Some(Duration(logs[i], t)),
                       !.timestamp = t ] ]

\* logs[logIndex] = { ...log, status, duration }
CompleteWrite(logs, i, status, t) ==
  [ logs EXCEPT ![i] =
      [ logs[i] EXCEPT !.status = status,
                       !.duration = Some(Duration(logs[i], t)) ] ]

\* { ...log, ...updates }: updates is a function from some field names
Spread(log, updates) ==
  [ f \in DOMAIN log |-> IF f \in DOMAIN updates THEN updates[f] ELSE log[f] ]

\* logs[logIndex] = { ...logs[logIndex], ...updates }
UpdateWrite(logs, i, updates) == [ logs EXCEPT ![i] = Spread(logs[i], updates) ]

\* logs.slice(0, limit) when limit is given and positive (getActivityLogs)
GetActivityLogsValue(st, limit) ==
  IF IsDefined(limit) /\ limit[1] > 0
  THEN Slice(Load(st), limit[1])
  ELSE Load(st)

\* Count that forgets what it counted: map[k] = 1
CountOnce(map, k) == [ j \in DOMAIN map \cup { k } |-> IF j = k THEN 1 ELSE map[j] ]

\* map[k] = (map[k] || 0) + 1
Count(map, k) ==
  IF k \in DOMAIN map /\ map[k] /= 0
  THEN [ map EXCEPT ![k] = @ + 1 ]
  ELSE [ j \in DOMAIN map \cup { k } |-> IF j = k THEN 1 ELSE map[j] ]

\* if (x): a number that is present and not 0
Truthy(o) == IsDefined(o) /\ o[1] /= 0

\* logs[0]: undefined on the empty array
First(logs) == IF logs = << >> THEN Undefined ELSE Some(logs[1])

\* 24 * 60 * 60 * 1000
DayMs == 24 * 60 * 60 * 1000
\* the zones the browser may run in, and what each adds to UTC (ms)
Zones == { "UTC", "CET", "EST" }
ZoneOffset(zone) ==
  CASE zone = "UTC" -> 0
    [] zone = "CET" -> 60 * 60 * 1000
    [] zone = "EST" -> 0 - 5 * 60 * 60 * 1000
\* TodayStart taking the UTC day for the local day
TodayStartUtc(t, zone) == t - (t % DayMs)

\* new Date().setHours(0, 0, 0, 0): midnight of the local day, as UTC ms
TodayStart(t, zone) ==
  LET local == t + ZoneOffset(zone)
  IN  (local - (local % DayMs)) - ZoneOffset(zone)
\* now - 7 * 24 * 60 * 60 * 1000
WeekStart(t) == t - 7 * DayMs

\* the accumulators of getDetailedActivityStats before the pass
NoStats ==
  [ byType |-> << >>, byStatus |-> << >>, totalDuration |-> 0,
    durationCount |-> 0, todayCount |-> 0, weekCount |-> 0 ]

\* map[log.f]: the property key a value gives; a missing property reads
\* undefined, which as a key is the string 'undefined'
Key(log, f) == IF f \in DOMAIN log THEN log[f] ELSE "undefined"

\* typeof log.timestamp === 'number': the activity logger stores Date.now(),
\* NillionService (whose records carry a documentId) an ISO string
NumberStamped(log) ==
  "timestamp" \in DOMAIN log /\ "documentId" \notin DOMAIN log

\* log.timestamp >= t: a string that is no numeral converts to NaN, and
\* every comparison with NaN is false
AtOrAfter(log, t) == NumberStamped(log) /\ log.timestamp >= t

\* AtOrBefore leaving the bound out: log.timestamp < t
AtOrBeforeExclusive(log, t) == NumberStamped(log) /\ log.timestamp < t

\* log.timestamp <= t
AtOrBefore(log, t) == NumberStamped(log) /\ log.timestamp <= t

\* the body of logs.forEach in getDetailedActivityStats, lines 382-395
StatsStep(acc, log, t, zone) ==
  [ byType |-> Count(acc.byType, Key(log, "type")),
    byStatus |-> Count(acc.byStatus, Key(log, "status")),
    totalDuration |->
      IF Truthy(Get(log, "duration"))
      THEN acc.totalDuration + log.duration[1]
      ELSE acc.totalDuration,
    durationCount |->
      IF Truthy(Get(log, "duration"))
      THEN acc.durationCount + 1
      ELSE acc.durationCount,
    todayCount |->
      IF AtOrAfter(log, TodayStart(t, zone))
      THEN acc.todayCount + 1
      ELSE acc.todayCount,
    weekCount |->
      IF AtOrAfter(log, WeekStart(t))
      THEN acc.weekCount + 1
      ELSE acc.weekCount ]

\* logs.forEach(..) from record i on
RECURSIVE StatsPass(_, _, _, _, _)
StatsPass(logs, i, acc, t, zone) ==
  IF i > Len(logs)
  THEN acc
  ELSE StatsPass(logs, i + 1, StatsStep(acc, logs[i], t, zone), t, zone)

\* totalDuration / durationCount, kept as the pair it is the quotient of
Quotient(total, count) == [ num |-> total, den |-> count ]

\* the object getDetailedActivityStats returns, lines 398-406
DetailedActivityStats(st, t, zone) ==
  LET logs == GetActivityLogsValue(st, Undefined)
      acc == StatsPass(logs, 1, NoStats, t, zone)
  IN  [ total |-> Len(logs),
        byType |-> acc.byType,
        byStatus |-> acc.byStatus,
        lastActivity |-> First(logs),
        todayCount |-> acc.todayCount,
        weekCount |-> acc.weekCount,
        averageDuration |->
          IF acc.durationCount > 0
          THEN Some(Quotient(acc.totalDuration, acc.durationCount))
          ELSE Undefined ]

\* logs.forEach(..) of getActivityStats from record i on, lines 242-244
RECURSIVE TypePass(_, _, _)
TypePass(logs, i, byType) ==
  IF i > Len(logs)
  THEN byType
  ELSE TypePass(logs, i + 1, Count(byType, Key(logs[i], "type")))

\* the object getActivityStats returns, lines 246-250
ActivityStats(st) ==
  LET logs == GetActivityLogsValue(st, Undefined)
  IN  [ total |-> Len(logs),
        byType |-> TypePass(logs, 1, << >>),
        lastActivity |-> First(logs) ]

\* new Date().toISOString(): the time as a string
IsoString(t) == ToString(t)

\* 'nillion_' + Date.now() + '_' + random: ids apart from the uuids
ServiceId(n) == MAX_LOGS + n

\* the ActivityLog object literal NillionService.createDocument passes to
\* its own logActivity (the service's ActivityLog interface)
ServiceLog(id, t) ==
  [ id |-> id, type |-> "document_created", documentId |-> "doc",
    timestamp |-> IsoString(t), details |-> "Created document" ]

\* logs.push(activity); if (logs.length > 100) logs.splice(0, logs.length - 100)
ServiceWrite(logs, activity) ==
  LET pushed == Append(logs, activity)
  IN  IF Len(pushed) > SERVICE_MAX_LOGS
      THEN SubSeq(pushed, Len(pushed) - SERVICE_MAX_LOGS + 1, Len(pushed))
      ELSE pushed

\* ------------------------------------------------------------ text
\* A JavaScript string is a TLA+ string; what it spells is the sequence of
\* its characters, which the string operations below work on.
Chars(s) ==
  CASE s = "IDENTITY_CREATED" ->
         << "I", "D", "E", "N", "T", "I", "T", "Y", "_", "C", "R", "E", "A", "T", "E", "D" >>
    [] s = "IDENTITY_IMPORTED" ->
         << "I", "D", "E", "N", "T", "I", "T", "Y", "_", "I", "M", "P", "O", "R", "T", "E", "D" >>
    [] s = "IDENTITY_EXPORTED" ->
         << "I", "D", "E", "N", "T", "I", "T", "Y", "_", "E", "X", "P", "O", "R", "T", "E", "D" >>
    [] s = "DOCUMENT_CREATED" ->
         << "D", "O", "C", "U", "M", "E", "N", "T", "_", "C", "R", "E", "A", "T", "E", "D" >>
    [] s = "DOCUMENT_READ" ->
         << "D", "O", "C", "U", "M", "E", "N", "T", "_", "R", "E", "A", "D" >>
    [] s = "DOCUMENT_DELETED" ->
         << "D", "O", "C", "U", "M", "E", "N", "T", "_", "D", "E", "L", "E", "T", "E", "D" >>
    [] s = "PERMISSION_GRANTED" ->
         << "P", "E", "R", "M", "I", "S", "S", "I", "O", "N", "_", "G", "R", "A", "N", "T", "E", "D" >>
    [] s = "PERMISSION_REVOKED" ->
         << "P", "E", "R", "M", "I", "S", "S", "I", "O", "N", "_", "R", "E", "V", "O", "K", "E", "D" >>
    [] s = "COLLECTION_VIEWED" ->
         << "C", "O", "L", "L", "E", "C", "T", "I", "O", "N", "_", "V", "I", "E", "W", "E", "D" >>
    [] s = "APP_CONNECTED" ->
         << "A", "P", "P", "_", "C", "O", "N", "N", "E", "C", "T", "E", "D" >>
    [] s = "APP_DISCONNECTED" ->
         << "A", "P", "P", "_", "D", "I", "S", "C", "O", "N", "N", "E", "C", "T", "E", "D" >>
    [] s = "AUTOFILL_EXECUTED" ->
         << "A", "U", "T", "O", "F", "I", "L", "L", "_", "E", "X", "E", "C", "U", "T", "E", "D" >>
    [] s = "DATA_EXPORTED" ->
         << "D", "A", "T", "A", "_", "E", "X", "P", "O", "R", "T", "E", "D" >>
    [] s = "SECURITY_CHANGED" ->
         << "S", "E", "C", "U", "R", "I", "T", "Y", "_", "C", "H", "A", "N", "G", "E", "D" >>
    [] s = "success" ->
         << "s", "u", "c", "c", "e", "s", "s" >>
    [] s = "failed" ->
         << "f", "a", "i", "l", "e", "d" >>
    [] s = "warning" ->
         << "w", "a", "r", "n", "i", "n", "g" >>
    [] s = "pending" ->
         << "p", "e", "n", "d", "i", "n", "g" >>
    [] s = "in_progress" ->
         << "i", "n", "_", "p", "r", "o", "g", "r", "e", "s", "s" >>
    [] s = "completed" ->
         << "c", "o", "m", "p", "l", "e", "t", "e", "d" >>
    [] s = "doc" ->
         << "d", "o", "c" >>
    [] s = "old" ->
         << "o", "l", "d" >>
    [] s = "step" ->
         << "s", "t", "e", "p" >>
    [] s = "Doc \"A\"" ->
         << "D", "o", "c", " ", "\"", "A", "\"" >>
    [] s = "export" ->
         << "e", "x", "p", "o", "r", "t" >>
    [] s = "say \"hi\"" ->
         << "s", "a", "y", " ", "\"", "h", "i", "\"" >>
    [] s = "read" ->
         << "r", "e", "a", "d" >>
    [] s = "note" ->
         << "n", "o", "t", "e" >>
    [] s = "format" ->
         << "f", "o", "r", "m", "a", "t" >>
    [] s = "filename" ->
         << "f", "i", "l", "e", "n", "a", "m", "e" >>
    [] s = "count" ->
         << "c", "o", "u", "n", "t" >>
    [] s = "json" ->
         << "j", "s", "o", "n" >>
    [] s = "csv" ->
         << "c", "s", "v" >>
    [] s = "a\"b" ->
         << "a", "\"", "b" >>
    [] s = "did" ->
         << "d", "i", "d" >>
    [] s = "DOC" ->
         << "D", "O", "C" >>
    [] s = "zz" ->
         << "z", "z" >>
    [] s = "b" ->
         << "b" >>
    [] s = " " ->
         << " " >>
    [] s = "all" ->
         << "a", "l", "l" >>
    [] s = "ID" ->
         << "I", "D" >>
    [] s = "Timestamp" ->
         << "T", "i", "m", "e", "s", "t", "a", "m", "p" >>
    [] s = "Date" ->
         << "D", "a", "t", "e" >>
    [] s = "Type" ->
         << "T", "y", "p", "e" >>
    [] s = "Description" ->
         << "D", "e", "s", "c", "r", "i", "p", "t", "i", "o", "n" >>
    [] s = "Status" ->
         << "S", "t", "a", "t", "u", "s" >>
    [] s = "Duration (ms)" ->
         << "D", "u", "r", "a", "t", "i", "o", "n", " ", "(", "m", "s", ")" >>
    [] s = "User DID" ->
         << "U", "s", "e", "r", " ", "D", "I", "D" >>
    [] s = "Details" ->
         << "D", "e", "t", "a", "i", "l", "s" >>
    [] s = "Sub Steps" ->
         << "S", "u", "b", " ", "S", "t", "e", "p", "s" >>
    [] s = "No logs to export" ->
         << "N", "o", " ", "l", "o", "g", "s", " ", "t", "o", " ", "e", "x", "p", "o", "r", "t" >>
    [] s = "document_created" ->
         << "d", "o", "c", "u", "m", "e", "n", "t", "_", "c", "r", "e", "a", "t", "e", "d" >>
    [] s = "Created document" ->
         << "C", "r", "e", "a", "t", "e", "d", " ", "d", "o", "c", "u", "m", "e", "n", "t" >>
    [] s = "" -> << >>

UpperLetters ==
  << "A", "B", "C", "D", "E", "F", "G", "H", "I", "J", "K", "L", "M",
     "N", "O", "P", "Q", "R", "S", "T", "U", "V", "W", "X", "Y", "Z" >>
LowerLetters ==
  << "a", "b", "c", "d", "e", "f", "g", "h", "i", "j", "k", "l", "m",
     "n", "o", "p", "q", "r", "s", "t", "u", "v", "w", "x", "y", "z" >>

\* String.prototype.toLowerCase(), one character and a whole text
LowerChar(c) ==
  IF \E k \in 1..26 : UpperLetters[k] = c
  THEN LowerLetters[CHOOSE k \in 1..26 : UpperLetters[k] = c]
  ELSE c
ToLowerCase(text) == [ k \in 1..Len(text) |-> LowerChar(text[k]) ]

\* String.prototype.includes(q)
Includes(text, q) ==
  \E k \in 0..(Len(text) - Len(q)) : SubSeq(text, k + 1, k + Len(q)) = q

\* String.prototype.trim(), for texts of spaces and letters
RECURSIVE TrimStart(_)
TrimStart(text) ==
  IF text /= << >> /\ Head(text) = " " THEN TrimStart(Tail(text)) ELSE text
RECURSIVE TrimEnd(_)
TrimEnd(text) ==
  IF text /= << >> /\ text[Len(text)] = " "
  THEN TrimEnd(SubSeq(text, 1, Len(text) - 1))
  ELSE text
Trim(text) == TrimEnd(TrimStart(text))

\* text.replace(/"/g, '""')
RECURSIVE DoubleQuotes(_)
DoubleQuotes(text) ==
  IF text = << >>
  THEN << >>
  ELSE (IF Head(text) = "\"" THEN << "\"", "\"" >> ELSE << Head(text) >>)
         \o DoubleQuotes(Tail(text))

\* Array.prototype.join(sep)
RECURSIVE Join(_, _)
Join(texts, sep) ==
  IF texts = << >>
  THEN << >>
  ELSE IF Len(texts) = 1
       THEN texts[1]
       ELSE texts[1] \o sep \o Join(Tail(texts), sep)

\* String(n) of an integer
Digits == << "0", "1", "2", "3", "4", "5", "6", "7", "8", "9" >>
RECURSIVE Natural(_)
Natural(n) ==
  IF n < 10 THEN << Digits[n + 1] >>
  ELSE Natural(n \div 10) \o << Digits[(n % 10) + 1] >>
Decimal(n) == IF n < 0 THEN << "-" >> \o Natural(0 - n) ELSE Natural(n)

\* padStart(width, '0') of a number, as toISOString writes its parts
Padded(n, width) ==
  IF Len(Natural(n)) >= width
  THEN Natural(n)
  ELSE [ k \in 1..(width - Len(Natural(n))) |-> "0" ] \o Natural(n)

\* new Date(t).toISOString(), for a time within January 1970
IsoText(t) ==
  LET ms == t % 1000
      sec == (t \div 1000) % 60
      min == (t \div (60 * 1000)) % 60
      hour == (t \div (60 * 60 * 1000)) % 24
      day == (t \div DayMs) + 1
  IN  << "1", "9", "7", "0", "-", "0", "1", "-" >> \o Padded(day, 2)
        \o << "T" >> \o Padded(hour, 2) \o << ":" >> \o Padded(min, 2)
        \o << ":" >> \o Padded(sec, 2) \o << "." >> \o Padded(ms, 3)
        \o << "Z" >>

\* JSON.stringify of a string: quotes and backslashes escaped, in quotes
RECURSIVE JsonEscape(_)
JsonEscape(text) ==
  IF text = << >>
  THEN << >>
  ELSE (IF Head(text) \in { "\"", "\\" }
        THEN << "\\", Head(text) >>
        ELSE << Head(text) >>) \o JsonEscape(Tail(text))
JsonString(s) == << "\"" >> \o JsonEscape(Chars(s)) \o << "\"" >>

\* The property names a details object may hold, in the order the object
\* literals that build one write them (JSON.stringify keeps that order).
DetailKeys == << "format", "note" >>

\* JSON.stringify(log.details), for a details object that holds strings
JsonMember(d, k) == JsonString(k) \o << ":" >> \o JsonString(d[k])
JsonObject(d) ==
  LET present == SelectSeq(DetailKeys, LAMBDA k : k \in DOMAIN d)
  IN  << "{" >>
        \o Join([ j \in 1..Len(present) |-> JsonMember(d, present[j]) ],
                << "," >>)
        \o << "}" >>

\* ------------------------------------------------------------ queries
\* What the query and export functions compute from the collection that
\* getActivityLogs() hands them. A property read off undefined (a record
\* without the property, then .toLowerCase() or .replace()) throws a
\* TypeError, which rejects the function's promise.

\* the filter callback of searchActivityLogs throws on this record
SearchThrows(log, lowerQuery) ==
  \/ "description" \notin DOMAIN log
  \/ /\ ~Includes(ToLowerCase(Chars(log.description)), lowerQuery)
     /\ "type" \notin DOMAIN log

\* the filter callback of searchActivityLogs, lines 264-267
SearchMatches(log, lowerQuery) ==
  \/ Includes(ToLowerCase(Chars(log.description)), lowerQuery)
  \/ Includes(ToLowerCase(Chars(log.type)), lowerQuery)
  \/ /\ IsDefined(Get(log, "details"))
     /\ Includes(ToLowerCase(JsonObject(log.details[1])), lowerQuery)

\* logs.filter(..) of searchActivityLogs: the matches, or the exception
SearchActivityLogsValue(logs, query) ==
  LET lowerQuery == ToLowerCase(Chars(query))
  IN  IF \E i \in 1..Len(logs) : SearchThrows(logs[i], lowerQuery)
      THEN [ outcome |-> "threw", value |-> << >> ]
      ELSE [ outcome |-> "returned",
             value |-> SelectSeq(logs,
                         LAMBDA log : SearchMatches(log, lowerQuery)) ]

\* getActivityLogsByType, lines 113-120
ActivityLogsByType(logs, type, limit) ==
  LET filtered == SelectSeq(logs, LAMBDA log :
                    "type" \in DOMAIN log /\ log.type = type)
  IN  IF IsDefined(limit) /\ limit[1] > 0
      THEN Slice(filtered, limit[1])
      ELSE filtered

\* getActivityLogsByTimeRange, lines 131-133
ActivityLogsByTimeRange(logs, startTime, endTime) ==
  SelectSeq(logs, LAMBDA log :
    AtOrAfter(log, startTime) /\ AtOrBefore(log, endTime))

\* JSON.stringify(logs, null, 2) of exportActivityLogs: per record, the
\* properties it writes (a property holding undefined is left out)
JsonProperties(log) ==
  { f \in DOMAIN log :
      \/ "documentId" \in DOMAIN log
      \/ f \notin { "details", "userDid", "subSteps", "duration", "metadata" }
      \/ IsDefined(log[f]) }
JsonContent(logs) ==
  [ i \in 1..Len(logs) |-> [ f \in JsonProperties(logs[i]) |-> logs[i][f] ] ]

\* headers, line 162
CsvHeaders ==
  << "ID", "Timestamp", "Date", "Type", "Description", "Status",
     "Duration (ms)", "User DID", "Details", "Sub Steps" >>

\* the map callback of exportActivityLogsAsCSV throws on this record
\* (log.description.replace on a record without description)
CsvRowThrows(log) == "description" \notin DOMAIN log

\* `${s.order}. ${s.description} [${s.status}]`
SubStepText(step) ==
  Decimal(step.order) \o << ".", " " >> \o Chars(step.description)
    \o << " ", "[" >> \o Chars(step.status) \o << "]" >>

\* const subSteps = log.subSteps ? log.subSteps.map(..).join('; ') : ''
SubStepsText(log) ==
  IF IsDefined(Get(log, "subSteps"))
  THEN Join([ k \in 1..Len(log.subSteps[1]) |-> SubStepText(log.subSteps[1][k]) ],
            << ";", " " >>)
  ELSE << >>

\* const details = log.details ? JSON.stringify(..).replace(/"/g, '""') : ''
DetailsText(log) ==
  IF IsDefined(Get(log, "details"))
  THEN DoubleQuotes(JsonObject(log.details[1]))
  ELSE << >>

\* an element of the array the row joins: undefined joins as ''
Cell(log, f) ==
  IF f \notin DOMAIN log
  THEN << >>
  ELSE IF f \in { "id", "timestamp" } THEN Decimal(log[f]) ELSE Chars(log[f])

\* in double quotes
Quoted(text) == << "\"" >> \o text \o << "\"" >>

\* the row of one record, lines 170-181
CsvRow(log) ==
  Join(<< Cell(log, "id"),
          Cell(log, "timestamp"),
          IsoText(log.timestamp),
          Cell(log, "type"),
          Quoted(DoubleQuotes(Chars(log.description))),
          Cell(log, "status"),
          IF Truthy(Get(log, "duration")) THEN Decimal(log.duration[1]) ELSE << >>,
          IF IsDefined(Get(log, "userDid")) THEN Chars(log.userDid[1]) ELSE << >>,
          Quoted(DetailsText(log)),
          Quoted(SubStepsText(log)) >>,
       << "," >>)

\* exportActivityLogsAsCSV, lines 155-184: the text, or the exception
ActivityLogsAsCSV(logs) ==
  IF Len(logs) = 0
  THEN [ outcome |-> "returned", value |-> Chars("No logs to export") ]
  ELSE IF \E i \in 1..Len(logs) : CsvRowThrows(logs[i])
       THEN [ outcome |-> "threw", value |-> << >> ]
       ELSE [ outcome |-> "returned",
              value |->
                Join(<< Join([ k \in 1..Len(CsvHeaders) |-> Chars(CsvHeaders[k]) ],
                             << "," >>) >>
                       \o [ i \in 1..Len(logs) |-> CsvRow(logs[i]) ],
                     << "\n" >>) ]

\* ------------------------------------------------------------ handlers
\* What each handler hands to storage.set, from the logs its storage.get
\* returned: Some(logs) when it calls set, Undefined when it does not.

\* logActivity, lines 76-87
LogActivitySet(logs, log) == Some(LogActivityWrite(logs, log))

\* AddSubStepSet writing the logs back whether or not the id was found
AddSubStepSetAlways(logs, logId, description, status, details, t) ==
  IF FindIndex(logs, logId) /= 0
  THEN Some(AddSubStepWrite(logs, FindIndex(logs, logId), description,
                            status, details, t))
  ELSE Some(logs)

\* addSubStep, lines 296-314
AddSubStepSet(logs, logId, description, status, details, t) ==
  IF FindIndex(logs, logId) /= 0
  THEN Some(AddSubStepWrite(logs, FindIndex(logs, logId), description,
                            status, details, t))
  ELSE Undefined

\* completeActivity, lines 337-352
CompleteActivitySet(logs, logId, status, t) ==
  IF FindIndex(logs, logId) /= 0
  THEN Some(CompleteWrite(logs, FindIndex(logs, logId), status, t))
  ELSE Undefined

\* updateActivityLog, lines 277-284
UpdateActivityLogSet(logs, logId, updates) ==
  IF FindIndex(logs, logId) /= 0
  THEN Some(UpdateWrite(logs, FindIndex(logs, logId), updates))
  ELSE Undefined

\* The store after a handler that read `st`: storage.get or storage.set may
\* reject ("get", "set"); a rejected set, like a set never called, leaves
\* the store as it was.
Commit(st, set, fault) ==
  IF fault = "none" /\ IsDefined(set) THEN set ELSE st

\* How an async handler with no try/catch around its awaits ends: the
\* rejection of an awaited storage call rejects the handler's promise.
Outcome(set, fault) ==
  IF fault = "get" \/ (fault = "set" /\ IsDefined(set))
  THEN "threw"
  ELSE "returned"

\* ------------------------------------------------------------ inputs
\* The arguments callers pass, drawn from small sets.
TypeInputs == { "DOCUMENT_CREATED", "DATA_EXPORTED" }
StatusInputs == { "success", "failed" }
StepStatusInputs == { "completed", "failed" }

\* A caller-supplied subSteps argument of logActivity: none, the empty
\* array (as startActivity passes), or one step the caller numbered itself.
SuppliedStep ==
  [ order |-> 5, description |-> "step", timestamp |-> 0,
    status |-> "completed", details |-> Undefined ]
SubStepsInputs == { Undefined, Some(<< >>), Some(<< SuppliedStep >>) }

\* A record an earlier session left in the collection, i-th from the head.
OldLog(i) ==
  NewLog(0 - i, 0, "DOCUMENT_READ", "old", Undefined, Undefined, Undefined,
         "success")
\* The collection an earlier session left: one short of the retention limit.
Preloaded == [ i \in 1..(MAX_LOGS - 1) |-> OldLog(i) ]
\* The id of the oldest preloaded record, the first one retention evicts.
OldTailId == 0 - (MAX_LOGS - 1)

\* What a stored record may hold when the queries and statistics run:
\* type, status, and the duration a completion left (none, 0 for an
\* activity completed within the millisecond it started in, or more).
StoredSamples ==
  { [ type |-> "DOCUMENT_CREATED", status |-> "success", duration |-> Undefined ],
    [ type |-> "DOCUMENT_CREATED", status |-> "success", duration |-> Some(100) ],
    [ type |-> "DOCUMENT_CREATED", status |-> "failed", duration |-> Some(200) ],
    [ type |-> "DATA_EXPORTED", status |-> "success", duration |-> Some(0) ],
    [ type |-> "DATA_EXPORTED", status |-> "warning", duration |-> Undefined ] }

\* The i-th record from the head of a stored collection, holding sample v.
StoredLog(i, v) ==
  [ NewLog(0 - i, 0, v.type, "old", Undefined, Undefined, Undefined, v.status)
      EXCEPT !.duration = v.duration ]

\* The collections of 1..MaxStored records an earlier session left.
Stored ==
  UNION { { [ i \in 1..n |-> StoredLog(i, f[i]) ] :
              f \in [ 1..n -> StoredSamples ] } : n \in 1..MaxStored }

\* A sub-step as addSubStep stores it.
StoredStep(order, description, status) ==
  [ order |-> order, description |-> description, timestamp |-> 0,
    status |-> status, details |-> Undefined ]

\* A record without one of its properties, as it is read back when the
\* property was stored holding undefined.
Without(log, f) == [ g \in DOMAIN log \ { f } |-> log[g] ]

\* The kinds of record the queries and exports may meet at position i from
\* the head: three activity-logger records (descriptions, details and
\* sub-steps with and without double quotes), a record NillionService
\* pushed, a record read back without id and one without type.
QueryKinds == { "quoted", "exported", "stepped", "service", "no id", "no type" }

QueryLog(i, kind) ==
  LET quoted ==
        [ NewLog(0 - i, 1, "DOCUMENT_CREATED", "Doc \"A\"",
                 Some([ note |-> "a\"b" ]), Some("did"),
                 Some(<< StoredStep(1, "read", "completed") >>), "success")
            EXCEPT !.duration = Some(100) ]
      exported ==
        NewLog(0 - i, 2, "DATA_EXPORTED", "export",
               Some([ format |-> "json" ]), Undefined, Undefined, "failed")
      stepped ==
        NewLog(0 - i, 3, "DOCUMENT_CREATED", "doc", Undefined, Undefined,
               Some(<< StoredStep(1, "say \"hi\"", "completed"),
                       StoredStep(2, "read", "failed") >>), "warning")
  IN  CASE kind = "quoted" -> quoted
        [] kind = "exported" -> exported
        [] kind = "stepped" -> stepped
        [] kind = "service" -> ServiceLog(ServiceId(i), 2)
        [] kind = "no id" -> Without(exported, "id")
        [] kind = "no type" -> Without(quoted, "type")

\* The collections of 0..MaxStored such records.
QueryCollections ==
  UNION { { [ i \in 1..n |-> QueryLog(i, f[i]) ] :
              f \in [ 1..n -> QueryKinds ] } : n \in 0..MaxStored }

\* The arguments of the queries: search texts (none, one that matches a
\* type and a description in another case, one that matches a rendered
\* details object only, one that matches nothing), and times around the
\* stored timestamps.
QueryInputs == { "", "DOC", "note", "zz" }
TimeInputs == { 0, 2, 3 }

\* The limit argument of getActivityLogs: none, 0, or a positive number.
LimitInputs == { Undefined, Some(0), Some(2) }

\* The ids logActivity returns in one behaviour; a caller may pass one
\* before it is returned, and then it is not in the collection.
NewIds == 1..MaxIds

\* The updates argument of updateActivityLog (a Partial<ActivityLog>).
UpdateInputs ==
  { [ status |-> "warning" ],
    [ duration |-> Some(7) ],
    [ timestamp |-> 1 ],
    [ id |-> 1 ],
    [ subSteps |-> Some(<< SuppliedStep >>) ] }

\* The store works, or one of the handler's two storage calls rejects.
NoFault == { "none" }
Faults == { "none", "get", "set" }

\* ------------------------------------------------------------ results
\* What a caller observes of a call, and what the call did to the store.
Result(op, id, arg, set, fault) ==
  [ op |-> op, id |-> id, arg |-> arg, fault |-> fault,
    outcome |-> Outcome(set, fault),
    wrote |-> fault = "none" /\ IsDefined(set) ]

\* What a caller observes of a query: the value it resolves to.
ReadResult(op, value) ==
  [ op |-> op, id |-> 0, arg |-> "", fault |-> "none", outcome |-> "returned",
    wrote |-> FALSE, value |-> value ]

NoCall ==
  [ op |-> "none", id |-> 0, arg |-> "", fault |-> "none",
    outcome |-> "returned", wrote |-> FALSE ]
NoRun == [ phase |-> "idle", id |-> 0, steps |-> << >>, status |-> "" ]

\* browser.storage.local with none of the other keys written: the auth
\* keys AuthService names and the permission manager's STORAGE_KEY.
LocalKeys ==
  { "nillion_auth_config", "nillion_auth_salt", "nillion_auth_enabled",
    "nillion_auth_method", "nillion_auth_hash", "nillion_app_permissions" }
NoLocal == [ k \in LocalKeys |-> Undefined ]

\* ActivityLogTab before it has loaded anything: the useState defaults.
NoTab ==
  [ logs |-> << >>, filteredLogs |-> << >>, searchQuery |-> "",
    filterType |-> "all", filterStatus |-> "all" ]

\* The callers whose calls may be in flight at once, and a caller at rest.
Callers == { "a", "b" }
Idle ==
  [ pc |-> "idle", op |-> "none", id |-> 0, arg |-> "", log |-> Undefined,
    logs |-> << >> ]

\* ------------------------------------------------------------ initial states
InitWith(st) ==
  /\ storage = st
  /\ now = 0
  /\ nextId = 1
  /\ ret = NoCall
  /\ run = NoRun
  /\ calls = [ c \in Callers |-> Idle ]
  /\ model = << >>
  /\ tab = NoTab
  /\ kv = NoLocal

\* a fresh installation: the key was never written
Init == InitWith(Undefined)

\* ------------------------------------------------------------ operations
\* Each operation below runs its handler to completion with no other call
\* between its storage.get and its storage.set.

\* logActivity(type, description, details, userDid, subSteps, status)
LogActivityCall(op, type, subSteps, status, fault) ==
  LET log == NewLog(nextId, now, type, "doc", Undefined, Undefined,
                    subSteps, status)
      set == LogActivitySet(Load(storage), log)
  IN  /\ nextId <= MaxIds
      /\ storage' = Commit(storage, set, fault)
      /\ nextId' = nextId + 1
      /\ ret' = Result(op, nextId, status, set, fault)
      /\ UNCHANGED now

LogActivity(types, subStepsArgs, statuses, faults) ==
  \E type \in types, subSteps \in subStepsArgs, status \in statuses,
     fault \in faults :
    LogActivityCall("logActivity", type, subSteps, status, fault)

\* StartActivity leaving subSteps out: logActivity(type, description,
\* details, userDid) in place of logActivity(.., [], 'success')
StartActivityNoSteps(types, faults) ==
  \E type \in types, fault \in faults :
    LogActivityCall("startActivity", type, Undefined, "success", fault)

\* startActivity(type, description, details, userDid)
StartActivity(types, faults) ==
  \E type \in types, fault \in faults :
    LogActivityCall("startActivity", type, Some(<< >>), "success", fault)

\* addSubStep(logId, description, status, details)
AddSubStep(ids, statuses, faults) ==
  \E logId \in ids, status \in statuses, fault \in faults :
    LET logs == Load(storage)
        set == AddSubStepSet(logs, logId, "step", status, Undefined, now)
    IN  /\ TotalSteps(logs) < MaxSteps
        /\ storage' = Commit(storage, set, fault)
        /\ ret' = Result("addSubStep", logId, status, set, fault)
        /\ UNCHANGED << now, nextId >>

\* completeActivity(logId, status)
CompleteActivity(ids, statuses, faults) ==
  \E logId \in ids, status \in statuses, fault \in faults :
    LET set == CompleteActivitySet(Load(storage), logId, status, now)
    IN  /\ storage' = Commit(storage, set, fault)
        /\ ret' = Result("completeActivity", logId, status, set, fault)
        /\ UNCHANGED << now, nextId >>

\* updateActivityLog(logId, updates)
UpdateActivityLog(ids, updatesArgs, faults) ==
  \E logId \in ids, updates \in updatesArgs, fault \in faults :
    LET set == UpdateActivityLogSet(Load(storage), logId, updates)
    IN  /\ storage' = Commit(storage, set, fault)
        /\ ret' = Result("updateActivityLog", logId, "", set, fault)
        /\ UNCHANGED << now, nextId >>

\* GetActivityLogs storing the default it read: storage.set of
\* result[STORAGE_KEY] || [] before returning
GetActivityLogsStoresDefault(limits) ==
  \E limit \in limits :
    /\ ret' = ReadResult("getActivityLogs", GetActivityLogsValue(storage, limit))
    /\ storage' = Some(Load(storage))
    /\ UNCHANGED << now, nextId >>

\* getActivityLogs(limit)
GetActivityLogs(limits) ==
  \E limit \in limits :
    /\ ret' = ReadResult("getActivityLogs", GetActivityLogsValue(storage, limit))
    /\ UNCHANGED << storage, now, nextId >>

\* getActivityStats()
GetActivityStats ==
  /\ ret' = ReadResult("getActivityStats", ActivityStats(storage))
  /\ UNCHANGED << storage, now, nextId >>

\* getDetailedActivityStats()
GetDetailedActivityStats(zones) ==
  \E zone \in zones :
    /\ ret' = [ ReadResult("getDetailedActivityStats",
                           DetailedActivityStats(storage, now, zone))
                 EXCEPT !.arg = zone ]
    /\ UNCHANGED << storage, now, nextId >>

\* What a caller observes of a query that may throw: its arguments, and the
\* value its promise resolves to or the rejection.
QueryResult(op, args, r) ==
  [ op |-> op, id |-> 0, arg |-> "", fault |-> "none", outcome |-> r.outcome,
    wrote |-> FALSE, value |-> r.value, args |-> args ]
Returned(value) == [ outcome |-> "returned", value |-> value ]

\* getActivityLogsByType(type, limit)
GetActivityLogsByType(types, limits) ==
  \E type \in types, limit \in limits :
    /\ ret' = QueryResult("getActivityLogsByType",
                          [ type |-> type, limit |-> limit ],
                          Returned(ActivityLogsByType(
                            GetActivityLogsValue(storage, Undefined),
                            type, limit)))
    /\ UNCHANGED << storage, now, nextId >>

\* getActivityLogsByTimeRange(startTime, endTime)
GetActivityLogsByTimeRange(times) ==
  \E startTime \in times, endTime \in times :
    /\ ret' = QueryResult("getActivityLogsByTimeRange",
                          [ startTime |-> startTime, endTime |-> endTime ],
                          Returned(ActivityLogsByTimeRange(
                            GetActivityLogsValue(storage, Undefined),
                            startTime, endTime)))
    /\ UNCHANGED << storage, now, nextId >>

\* searchActivityLogs(query)
SearchActivityLogs(queries) ==
  \E query \in queries :
    /\ ret' = QueryResult("searchActivityLogs", [ query |-> query ],
                          SearchActivityLogsValue(
                            GetActivityLogsValue(storage, Undefined), query))
    /\ UNCHANGED << storage, now, nextId >>

\* exportActivityLogs()
ExportActivityLogs ==
  /\ ret' = QueryResult("exportActivityLogs", << >>,
                        Returned(JsonContent(
                          GetActivityLogsValue(storage, Undefined))))
  /\ UNCHANGED << storage, now, nextId >>

\* exportActivityLogsAsCSV()
ExportActivityLogsAsCSV ==
  /\ ret' = QueryResult("exportActivityLogsAsCSV", << >>,
                        ActivityLogsAsCSV(
                          GetActivityLogsValue(storage, Undefined)))
  /\ UNCHANGED << storage, now, nextId >>

\* NillionService.logActivity(activity), as createDocument calls it
ServiceLogActivity ==
  LET set == Some(ServiceWrite(Load(storage), ServiceLog(ServiceId(nextId), now)))
  IN  /\ nextId <= MaxIds
      /\ storage' = Commit(storage, set, "none")
      /\ nextId' = nextId + 1
      /\ ret' = Result("NillionService.logActivity", ServiceId(nextId), "",
                       set, "none")
      /\ UNCHANGED now

\* ClearActivityLogs that removes nothing
ClearActivityLogsKeepsKey ==
  /\ storage' = storage
  /\ ret' = Result("clearActivityLogs", 0, "", Some(<< >>), "none")
  /\ UNCHANGED << now, nextId >>

\* clearActivityLogs(): browser.storage.local.remove(STORAGE_KEY)
ClearActivityLogs ==
  /\ storage' = Undefined
  /\ ret' = Result("clearActivityLogs", 0, "", Some(<< >>), "none")
  /\ UNCHANGED << now, nextId >>

\* the clock advances between calls
Tick ==
  /\ now < MaxClock
  /\ now' = now + 1
  /\ UNCHANGED << storage, nextId, ret, run, calls, model, tab, kv >>

\* The sequence under way after a call: startActivity opens one, addSubStep
\* and completeActivity on its id continue it, any other call ends it.
Track(r, call) ==
  IF call.op = "startActivity"
  THEN [ phase |-> "open", id |-> call.id, steps |-> << >>, status |-> "" ]
  ELSE IF r.phase = "open" /\ call.op = "addSubStep" /\ call.id = r.id
  THEN [ r EXCEPT !.steps = Append(@, call.arg) ]
  ELSE IF r.phase = "open" /\ call.op = "completeActivity" /\ call.id = r.id
  THEN [ r EXCEPT !.phase = "closed", !.status = call.arg ]
  ELSE NoRun

\* the wall clock is set back between calls (Date.now() is not monotonic)
ClockBack ==
  /\ now > 0
  /\ now' = now - 1
  /\ UNCHANGED << storage, nextId, ret, run, calls, model, tab, kv >>

Tracked == run' = Track(run, ret') /\ UNCHANGED << calls, model, tab, kv >>
Untracked == UNCHANGED << run, calls, model, tab, kv >>

\* ------------------------------------------------------------ Spec
\* The lifecycle manager on a fresh installation, one call at a time:
\* activities are created, given sub-steps and completed, the collection
\* is cleared, and the clock advances.
Next ==
  \/ LogActivity({ "DOCUMENT_CREATED" }, SubStepsInputs, { "success" }, NoFault)
       /\ Tracked
  \/ StartActivity({ "DOCUMENT_CREATED" }, NoFault) /\ Tracked
  \/ AddSubStep(NewIds, StepStatusInputs, NoFault) /\ Tracked
  \/ CompleteActivity(NewIds, StatusInputs, NoFault) /\ Tracked
  \/ ClearActivityLogs /\ Tracked
  \/ Tick

Spec == Init /\ [][Next]_vars

\* ------------------------------------------------------------ SpecRetention
\* Every exported mutation, one call at a time and within one millisecond,
\* on a collection an earlier session left one short of the limit.
InitRetention == InitWith(Some(Preloaded))

HeldIds == { 1, OldTailId }

NextRetention ==
  \/ LogActivity({ "DOCUMENT_CREATED" }, { Undefined }, { "success" }, NoFault)
       /\ Untracked
  \/ StartActivity({ "DOCUMENT_CREATED" }, NoFault) /\ Untracked
  \/ AddSubStep(HeldIds, { "completed" }, NoFault) /\ Untracked
  \/ CompleteActivity(HeldIds, { "success" }, NoFault) /\ Untracked
  \/ UpdateActivityLog(HeldIds, { [ status |-> "warning" ] }, NoFault)
       /\ Untracked
  \/ ClearActivityLogs /\ Untracked

SpecRetention == InitRetention /\ [][NextRetention]_vars

\* ------------------------------------------------------------ SpecLog
\* Sequences of logActivity (and startActivity) calls alone, on a fresh
\* installation or on a nearly full collection, under a wall clock that
\* moves either way between calls.
InitLog == InitWith(Undefined) \/ InitWith(Some(Preloaded))

NextLog ==
  \/ LogActivity(TypeInputs, { Undefined }, StatusInputs, NoFault) /\ Untracked
  \/ StartActivity(TypeInputs, NoFault) /\ Untracked
  \/ Tick
  \/ ClockBack

SpecLog == InitLog /\ [][NextLog]_vars

\* ------------------------------------------------------------ SpecShared
\* The activity logger and NillionService writing the one storage key, one
\* call at a time, on a fresh installation or on a nearly full collection.
NextShared ==
  \/ LogActivity({ "DOCUMENT_CREATED" }, { Undefined }, { "success" }, NoFault)
       /\ Untracked
  \/ ServiceLogActivity /\ Untracked
  \/ AddSubStep(HeldIds, { "completed" }, NoFault) /\ Untracked
  \/ CompleteActivity(HeldIds, { "success" }, NoFault) /\ Untracked
  \/ ClearActivityLogs /\ Untracked

SpecShared == InitLog /\ [][NextShared]_vars

\* ------------------------------------------------------------ SpecUpdate
\* Activities that are created, given sub-steps and patched through
\* updateActivityLog, and never completed.
NextUpdate ==
  \/ LogActivity({ "DOCUMENT_CREATED" }, { Undefined }, { "success" }, NoFault)
       /\ Untracked
  \/ StartActivity({ "DOCUMENT_CREATED" }, NoFault) /\ Untracked
  \/ AddSubStep(NewIds, { "completed" }, NoFault) /\ Untracked
  \/ UpdateActivityLog(NewIds, UpdateInputs, NoFault) /\ Untracked
  \/ Tick

SpecUpdate == Init /\ [][NextUpdate]_vars

\* ------------------------------------------------------------ SpecRead
\* The queries and statistics, one call at a time, between mutations, on a
\* fresh installation or on a collection an earlier session left.
InitRead == \E st \in { Undefined } \cup { Some(c) : c \in Stored } : InitWith(st)

ReadIds == { 0 - 1, 1 }

NextRead ==
  \/ GetActivityLogs(LimitInputs) /\ Untracked
  \/ GetActivityStats /\ Untracked
  \/ GetDetailedActivityStats({ "UTC" }) /\ Untracked
  \/ LogActivity({ "DOCUMENT_CREATED" }, { Undefined }, { "success" }, NoFault)
       /\ Untracked
  \/ CompleteActivity(ReadIds, { "failed" }, NoFault) /\ Untracked
  \/ ClearActivityLogs /\ Untracked

SpecRead == InitRead /\ [][NextRead]_vars

\* ------------------------------------------------------------ SpecClock
\* getDetailedActivityStats at different times of day in different zones,
\* over collections whose records were stamped around the day and week
\* boundaries, by the activity logger or by NillionService.
ClockSamples ==
  { 10 * DayMs, 10 * DayMs - 1, 10 * DayMs + 3 * 60 * 60 * 1000 }

\* Date.now() of earlier logActivity calls: the midnights of every zone near
\* t and the millisecond before each, seven days before t and the
\* millisecond before, and t itself.
Stamps(t) ==
  LET day == t \div DayMs
      midnights == { d * DayMs - ZoneOffset(z) :
                       d \in { day - 1, day, day + 1 }, z \in Zones }
      week == t - 7 * DayMs
  IN  { m \in midnights \cup { m - 1 : m \in midnights } : m <= t }
        \cup { week, week - 1, t }

\* The i-th record from the head: an activity-logger record stamped
\* `stamp`, or (stamp 0 - 1) a record NillionService pushed.
StampedLog(i, stamp, t) ==
  IF stamp = 0 - 1
  THEN ServiceLog(ServiceId(i), t)
  ELSE [ StoredLog(i, CHOOSE v \in StoredSamples : TRUE)
           EXCEPT !.timestamp = stamp ]

StampedCollections(t) ==
  UNION { { [ i \in 1..n |-> StampedLog(i, f[i], t) ] :
              f \in [ 1..n -> Stamps(t) \cup { 0 - 1 } ] } :
          n \in 0..MaxHeld }

InitClock ==
  \E t \in ClockSamples :
    \E c \in StampedCollections(t) :
      /\ storage = Some(c)
      /\ now = t
      /\ nextId = 1
      /\ ret = NoCall
      /\ run = NoRun
      /\ calls = [ caller \in Callers |-> Idle ]
      /\ model = << >>
      /\ tab = NoTab
      /\ kv = NoLocal

NextClock ==
  \/ GetDetailedActivityStats(Zones) /\ Untracked
  \/ LogActivity({ "DOCUMENT_CREATED" }, { Undefined }, { "success" }, NoFault)
       /\ Untracked

SpecClock == InitClock /\ [][NextClock]_vars

\* ------------------------------------------------------------ SpecQuery
\* The queries, statistics and exports, one call at a time, over the
\* collections they may meet (none stored yet, or records of every kind
\* that reaches the key), until the collection is cleared.
InitQuery ==
  \E st \in { Undefined } \cup { Some(c) : c \in QueryCollections } :
    InitWith(st)

NextQuery ==
  \/ GetActivityLogs(LimitInputs) /\ Untracked
  \/ GetActivityLogsByType(TypeInputs, LimitInputs) /\ Untracked
  \/ GetActivityLogsByTimeRange(TimeInputs) /\ Untracked
  \/ SearchActivityLogs(QueryInputs) /\ Untracked
  \/ GetActivityStats /\ Untracked
  \/ GetDetailedActivityStats({ "UTC" }) /\ Untracked
  \/ ExportActivityLogs /\ Untracked
  \/ ExportActivityLogsAsCSV /\ Untracked
  \/ ClearActivityLogs /\ Untracked

SpecQuery == InitQuery /\ [][NextQuery]_vars

\* ------------------------------------------------------------ SpecTab
\* The ActivityLogTab component: it loads the logs once, the user changes
\* the search text and the two filter selects, and every change of the
\* loaded logs or of an input runs applyFilters (the effect on
\* [logs, searchQuery, filterType, filterStatus]), here to its end before
\* the next change. Other contexts of the extension log activities
\* meanwhile.

\* applyFilters, lines 447-466: the component state it leaves, or the
\* rejection that leaves filteredLogs as it was
ApplyFilters(t, st) ==
  LET searched ==
        IF Trim(Chars(t.searchQuery)) /= << >>
        THEN SearchActivityLogsValue(GetActivityLogsValue(st, Undefined),
                                     t.searchQuery)
        ELSE Returned(t.logs)
      typed ==
        IF t.filterType /= "all"
        THEN SelectSeq(searched.value, LAMBDA log :
               "type" \in DOMAIN log /\ log.type = t.filterType)
        ELSE searched.value
      result ==
        IF t.filterStatus /= "all"
        THEN SelectSeq(typed, LAMBDA log :
               "status" \in DOMAIN log /\ log.status = t.filterStatus)
        ELSE typed
  IN  IF searched.outcome = "threw"
      THEN [ outcome |-> "threw", tab |-> t ]
      ELSE [ outcome |-> "returned", tab |-> [ t EXCEPT !.filteredLogs = result ] ]

\* a render with changed state, and the effect that runs applyFilters
Render(t) ==
  /\ tab' = ApplyFilters(t, storage).tab
  /\ ret' = QueryResult("applyFilters", << >>,
                        [ outcome |-> ApplyFilters(t, storage).outcome,
                          value |-> ApplyFilters(t, storage).tab.filteredLogs ])
  /\ UNCHANGED << storage, now, nextId, run, calls, model, kv >>

\* loadLogs, lines 425-437, as handleClearLogs and handleDownload call it
\* again
LoadLogs ==
  Render([ tab EXCEPT !.logs = GetActivityLogsValue(storage, Undefined),
                      !.filteredLogs = GetActivityLogsValue(storage, Undefined) ])

\* onChange of the search input, line 638
SetSearchQuery(queries) ==
  \E query \in queries \ { tab.searchQuery } :
    Render([ tab EXCEPT !.searchQuery = query ])

\* onChange of the type select, line 644
SetFilterType(types) ==
  \E type \in types \ { tab.filterType } :
    Render([ tab EXCEPT !.filterType = type ])

\* onChange of the status select, line 654
SetFilterStatus(statuses) ==
  \E status \in statuses \ { tab.filterStatus } :
    Render([ tab EXCEPT !.filterStatus = status ])

\* What the user may type and select.
TabQueries == { "", " ", "DOC", "zz" }
TabTypes == { "all", "DOCUMENT_CREATED", "DATA_EXPORTED" }
TabStatuses == { "all", "success", "failed" }

\* The collections of 0..MaxHeld records the tab may find stored.
TabCollections ==
  UNION { { [ i \in 1..n |-> QueryLog(i, f[i]) ] :
              f \in [ 1..n -> { "quoted", "exported", "service" } ] } :
          n \in 0..MaxHeld }

\* The tab as mounted: the effect on [] has run loadLogs on what is stored,
\* and no input has been touched.
InitTab ==
  \E st \in { Undefined } \cup { Some(c) : c \in TabCollections } :
    /\ storage = st
    /\ now = 0
    /\ nextId = 1
    /\ ret = NoCall
    /\ run = NoRun
    /\ calls = [ c \in Callers |-> Idle ]
    /\ model = << >>
    /\ tab = [ NoTab EXCEPT !.logs = GetActivityLogsValue(st, Undefined),
                            !.filteredLogs = GetActivityLogsValue(st, Undefined) ]
    /\ kv = NoLocal

NextTab ==
  \/ LoadLogs
  \/ SetSearchQuery(TabQueries)
  \/ SetFilterType(TabTypes)
  \/ SetFilterStatus(TabStatuses)
  \/ LogActivity({ "DATA_EXPORTED" }, { Undefined }, { "failed" }, NoFault)
       /\ UNCHANGED << run, calls, model, tab, kv >>

SpecTab == InitTab /\ [][NextTab]_vars

\* ------------------------------------------------------------ SpecFail
\* The lifecycle calls, one at a time, over a store whose get or set may
\* reject.
NextFail ==
  \/ LogActivity({ "DOCUMENT_CREATED" }, { Undefined }, { "success" }, Faults)
       /\ Untracked
  \/ StartActivity({ "DOCUMENT_CREATED" }, Faults) /\ Untracked
  \/ AddSubStep(NewIds, { "completed" }, Faults) /\ Untracked
  \/ CompleteActivity(NewIds, { "success" }, Faults) /\ Untracked
  \/ Tick

SpecFail == Init /\ [][NextFail]_vars

\* ------------------------------------------------------------ interleaving
\* A handler is suspended at each await: between its storage.get and its
\* storage.set other callers' handlers run.  BeginX is the handler up to the
\* resolution of its get, Finish from there to the resolution of its set.

\* logActivity, lines 65-77
BeginLogActivity(c, type, subSteps, status) ==
  /\ calls[c].pc = "idle"
  /\ nextId <= MaxIds
  /\ calls' = [ calls EXCEPT ![c] =
       [ pc |-> "read", op |-> "logActivity", id |-> nextId, arg |-> status,
         log |-> Some(NewLog(nextId, now, type, "doc", Undefined, Undefined,
                             subSteps, status)),
         logs |-> Load(storage) ] ]
  /\ nextId' = nextId + 1
  /\ UNCHANGED << storage, now, ret, run, model, tab, kv >>

\* addSubStep, lines 296-297
BeginAddSubStep(c, logId, status) ==
  /\ calls[c].pc = "idle"
  /\ TotalSteps(model) < MaxSteps
  /\ calls' = [ calls EXCEPT ![c] =
       [ pc |-> "read", op |-> "addSubStep", id |-> logId, arg |-> status,
         log |-> Undefined, logs |-> Load(storage) ] ]
  /\ UNCHANGED << storage, now, nextId, ret, run, model, tab, kv >>

\* completeActivity, lines 337-338
BeginCompleteActivity(c, logId, status) ==
  /\ calls[c].pc = "idle"
  /\ calls' = [ calls EXCEPT ![c] =
       [ pc |-> "read", op |-> "completeActivity", id |-> logId,
         arg |-> status, log |-> Undefined, logs |-> Load(storage) ] ]
  /\ UNCHANGED << storage, now, nextId, ret, run, model, tab, kv >>

\* FinishSet from the store as it is now, not from the logs the call read
FinishSetRereads(call, t) ==
  IF call.op = "logActivity"
  THEN LogActivitySet(Load(storage), call.log[1])
  ELSE IF call.op = "addSubStep"
  THEN AddSubStepSet(Load(storage), call.id, "step", call.arg, Undefined, t)
  ELSE CompleteActivitySet(Load(storage), call.id, call.arg, t)

\* what the suspended call hands to storage.set: computed from the logs
\* its get returned (lines 79-87, 299-313, 340-351)
FinishSet(call, t) ==
  IF call.op = "logActivity"
  THEN LogActivitySet(call.logs, call.log[1])
  ELSE IF call.op = "addSubStep"
  THEN AddSubStepSet(call.logs, call.id, "step", call.arg, Undefined, t)
  ELSE CompleteActivitySet(call.logs, call.id, call.arg, t)

\* The effect of a call on a list of records, stated on the list itself:
\* a new record goes in front and the list is cut to MAX_LOGS; a sub-step
\* numbered count + 1 goes to the end of the first record with the id; the
\* first record with the id gets the status and the time since its timestamp.
Effect(list, call, t) ==
  IF call.op = "logActivity"
  THEN [ i \in 1..Min(Len(list) + 1, MAX_LOGS) |->
           IF i = 1 THEN call.log[1] ELSE list[i - 1] ]
  ELSE [ i \in 1..Len(list) |->
           IF list[i].id = call.id /\ \A j \in 1..(i - 1) : list[j].id /= call.id
           THEN IF call.op = "addSubStep"
                THEN [ list[i] EXCEPT !.subSteps =
                         Some(StepsOf(list[i]) \o
                              << [ order |-> Len(StepsOf(list[i])) + 1,
                                   description |-> "step", timestamp |-> t,
                                   status |-> call.arg,
                                   details |-> Undefined ] >>) ]
                ELSE [ list[i] EXCEPT !.status = call.arg,
                                      !.duration = Some(t - list[i].timestamp) ]
           ELSE list[i] ]

\* the rest of the handler: the set resolves and the call returns
Finish(c) ==
  /\ calls[c].pc = "read"
  /\ storage' = Commit(storage, FinishSet(calls[c], now), "none")
  /\ ret' = Result(calls[c].op, calls[c].id, calls[c].arg,
                   FinishSet(calls[c], now), "none")
  /\ calls' = [ calls EXCEPT ![c] = Idle ]
  /\ model' = Effect(model, calls[c], now)
  /\ UNCHANGED << now, nextId, run, tab, kv >>

\* MayBegin with no queue: a call starts whatever is in flight
MayBeginAnyTime(serialized) == TRUE

\* a caller may start a call: always, or only with no call in flight
MayBegin(serialized) ==
  serialized => \A d \in Callers : calls[d].pc = "idle"

NextCalls(serialized, ids) ==
  \/ \E c \in Callers :
       MayBegin(serialized)
         /\ BeginLogActivity(c, "DOCUMENT_CREATED", Some(<< >>), "success")
  \/ \E c \in Callers, logId \in ids :
       MayBegin(serialized) /\ BeginAddSubStep(c, logId, "completed")
  \/ \E c \in Callers, logId \in ids :
       MayBegin(serialized) /\ BeginCompleteActivity(c, logId, "failed")
  \/ \E c \in Callers : Finish(c)

\* ------------------------------------------------------------ SpecRace
\* Two callers whose calls interleave at the awaits, within one millisecond:
\* activities are created, and the first one is given sub-steps and
\* completed.
NextRace == NextCalls(FALSE, { 1 })
SpecRace == Init /\ [][NextRace]_vars

\* ------------------------------------------------------------ SpecSerial
\* Two callers each of which awaits the call in flight before it starts
\* its own: one read-modify-write at a time.
NextSerial == NextCalls(TRUE, NewIds) \/ Tick
SpecSerial == Init /\ [][NextSerial]_vars

\* ------------------------------------------------------------ download
\* downloadActivityLogs(format), suspended at each of its awaits: the export
\* read (lines 196 / 200), the count read (line 224), and logActivity's get
\* and set (lines 76, 87).

\* the records the export content renders, in order (JSON.stringify(logs),
\* or one CSV row per record)
ExportContent(logs) == [ i \in 1..Len(logs) |-> logs[i].id ]

\* `nillion-activity-logs-${Date.now()}.csv` / `.json`
FileName(t, format) ==
  [ stamp |-> t, ext |-> IF format = "csv" THEN "csv" ELSE "json" ]

\* The formats and the failures of a download: none, the export read
\* rejecting, or the delivery through the document throwing.
FormatInputs == { "json", "csv" }

\* DownloadOutcome with the failure caught inside downloadActivityLogs
DownloadOutcomeSwallows(fault) == "returned"

\* downloadActivityLogs has no try/catch: a failure rejects its promise
DownloadOutcome(fault) == IF fault = "none" THEN "returned" ELSE "threw"

DownloadResult(id, format, fault, wrote) ==
  [ op |-> "downloadActivityLogs", id |-> id, arg |-> format, fault |-> fault,
    outcome |-> DownloadOutcome(fault), wrote |-> wrote ]

\* lines 195-203 up to the resolution of the export read
BeginDownload(c, format, fault) ==
  /\ calls[c].pc = "idle"
  /\ IF fault = "none"
     THEN /\ calls' = [ calls EXCEPT ![c] =
               [ pc |-> "content", op |-> "downloadActivityLogs", id |-> 0,
                 arg |-> format, log |-> Undefined, logs |-> << >>,
                 content |-> Some(ExportContent(
                                    GetActivityLogsValue(storage, Undefined))),
                 filename |-> Undefined ] ]
          /\ UNCHANGED ret
     ELSE /\ ret' = DownloadResult(0, format, fault, FALSE)
          /\ UNCHANGED calls
  /\ UNCHANGED << storage, now, nextId, run, model, tab, kv >>

\* lines 197 / 201 and 206-218: the file name, the blob, the link clicked
Deliver(c, fault) ==
  /\ calls[c].pc = "content"
  /\ IF fault = "none"
     THEN /\ calls' = [ calls EXCEPT ![c].pc = "delivered",
                                     ![c].filename =
                                       Some(FileName(now, calls[c].arg)) ]
          /\ UNCHANGED ret
     ELSE /\ ret' = DownloadResult(0, calls[c].arg, fault, FALSE)
          /\ calls' = [ calls EXCEPT ![c] = Idle ]
  /\ UNCHANGED << storage, now, nextId, run, model, tab, kv >>

\* line 224 resolves, logActivity is called and builds its log (lines 65-74)
CountRead(c) ==
  /\ calls[c].pc = "delivered"
  /\ nextId <= MaxIds
  /\ calls' = [ calls EXCEPT
       ![c].pc = "counted",
       ![c].id = nextId,
       ![c].log =
         Some(NewLog(nextId, now, "DATA_EXPORTED", "exported",
                     Some([ format |-> calls[c].arg,
                            filename |-> calls[c].filename[1],
                            count |-> Len(GetActivityLogsValue(storage,
                                                               Undefined)) ]),
                     Undefined, Undefined, "success")) ]
  /\ nextId' = nextId + 1
  /\ UNCHANGED << storage, now, ret, run, model, tab, kv >>

\* logActivity's storage.get resolves (lines 76-77)
LogRead(c) ==
  /\ calls[c].pc = "counted"
  /\ calls' = [ calls EXCEPT ![c].pc = "read", ![c].logs = Load(storage) ]
  /\ UNCHANGED << storage, now, nextId, ret, run, model, tab, kv >>

\* logActivity's storage.set resolves and downloadActivityLogs returns
DownloadFinish(c) ==
  /\ calls[c].pc = "read"
  /\ calls[c].op = "downloadActivityLogs"
  /\ storage' = Commit(storage, LogActivitySet(calls[c].logs, calls[c].log[1]),
                       "none")
  /\ ret' = DownloadResult(calls[c].id, calls[c].arg, "none", TRUE)
  /\ calls' = [ calls EXCEPT ![c] = Idle ]
  /\ UNCHANGED << now, nextId, run, model, tab, kv >>

\* ------------------------------------------------------------ SpecDownload
\* One caller downloading the logs while another component logs
\* activities, on a fresh installation.
NextDownload ==
  \/ \E format \in FormatInputs, fault \in { "none", "content" } :
       BeginDownload("a", format, fault)
  \/ \E fault \in { "none", "deliver" } : Deliver("a", fault)
  \/ CountRead("a")
  \/ LogRead("a")
  \/ DownloadFinish("a")
  \/ LogActivity({ "DOCUMENT_CREATED" }, { Undefined }, { "success" }, NoFault)
       /\ Untracked
  \/ Tick

SpecDownload == Init /\ [][NextDownload]_vars

\* ------------------------------------------------------------ SpecService
\* NillionService.createDocument, deleteDocument and grantPermission, each
\* run to completion with no other call between its awaits: startActivity,
\* the try block, and the catch block when the try block threw.
ServiceOps == { "createDocument", "deleteDocument", "grantPermission" }

\* the ActivityType each operation passes to startActivity
StartedType(op) ==
  CASE op = "createDocument" -> "DOCUMENT_CREATED"
    [] op = "deleteDocument" -> "DOCUMENT_DELETED"
    [] op = "grantPermission" -> "PERMISSION_GRANTED"

\* the object literal each operation passes to this.logActivity
ServiceActivity(op, id, t) ==
  CASE op = "createDocument" -> ServiceLog(id, t)
    [] op = "deleteDocument" ->
         [ id |-> id, type |-> "document_deleted", documentId |-> "doc",
           timestamp |-> IsoString(t), details |-> "Deleted document" ]
    [] op = "grantPermission" ->
         [ id |-> id, type |-> "permission_granted", documentId |-> "doc",
           grantee |-> "did", timestamp |-> IsoString(t),
           details |-> "Granted permissions" ]

\* The awaited calls of a block, in program order.
AddStep(status) == [ call |-> "addSubStep", status |-> status ]
Complete(status) == [ call |-> "completeActivity", status |-> status ]
\* storeDocument, storage.set of nillion_documents, storePermission
StoreCall == [ call |-> "store" ]
LogCall == [ call |-> "logActivity" ]
Throw == [ call |-> "throw" ]

\* createDocument, the try block (lines 82-117)
CreateDocumentTry ==
  << AddStep("in_progress"), AddStep("completed"),
     AddStep("in_progress"), AddStep("completed"),
     AddStep("in_progress"), StoreCall, AddStep("completed"),
     AddStep("in_progress"), LogCall, AddStep("completed"),
     Complete("success") >>

\* deleteDocument, the try block (lines 173-208): `found` is whether
\* nillion_documents holds the document for this owner
DeleteDocumentTry(found) ==
  << AddStep("in_progress") >>
  \o (IF found
      THEN << AddStep("completed"),
              AddStep("in_progress"), StoreCall, AddStep("completed"),
              AddStep("in_progress"), LogCall, AddStep("completed"),
              Complete("success") >>
      ELSE << AddStep("failed"), Complete("failed"), Throw >>)

\* grantPermission, the try block (lines 231-270)
GrantPermissionTry ==
  << AddStep("in_progress"), AddStep("completed"),
     AddStep("in_progress"), AddStep("completed"),
     AddStep("in_progress"), StoreCall, AddStep("completed"),
     AddStep("in_progress"), LogCall, AddStep("completed"),
     Complete("success") >>

TryBlock(op, found) ==
  CASE op = "createDocument" -> CreateDocumentTry
    [] op = "deleteDocument" -> DeleteDocumentTry(found)
    [] op = "grantPermission" -> GrantPermissionTry

\* catch (error) { addSubStep(.., 'failed'); completeActivity(.., 'failed');
\* throw error }, the same in the three operations
CatchBlock == << AddStep("failed"), Complete("failed") >>

\* One awaited call of a block on the running state s: the store, the
\* statuses passed to completeActivity so far, the number of addSubStep
\* calls, and whether the block has thrown. `fault` = "store" makes the
\* operation's own storage write reject.
ServiceStep(s, step, op, id, sid, t, fault) ==
  CASE step.call = "addSubStep" ->
         [ s EXCEPT
             !.st = Commit(s.st, AddSubStepSet(Load(s.st), id, "step",
                                               step.status, Undefined, t),
                           "none"),
             !.steps = @ + 1 ]
    [] step.call = "completeActivity" ->
         [ s EXCEPT
             !.st = Commit(s.st, CompleteActivitySet(Load(s.st), id,
                                                     step.status, t),
                           "none"),
             !.completions = Append(@, step.status) ]
    [] step.call = "logActivity" ->
         [ s EXCEPT
             !.st = Some(ServiceWrite(Load(s.st), ServiceActivity(op, sid, t))) ]
    [] step.call = "store" -> [ s EXCEPT !.threw = (fault = "store") ]
    [] step.call = "throw" -> [ s EXCEPT !.threw = TRUE ]

\* the calls of a block from the i-th on, up to the first one that throws
RECURSIVE RunBlock(_, _, _, _, _, _, _, _)
RunBlock(s, block, i, op, id, sid, t, fault) ==
  IF i > Len(block) \/ s.threw
  THEN s
  ELSE RunBlock(ServiceStep(s, block[i], op, id, sid, t, fault),
                block, i + 1, op, id, sid, t, fault)

\* The whole operation on store st: id is the uuid startActivity draws, sid
\* the id generateId gives the service's own record.
ServiceRun(st, op, found, id, sid, t, fault) ==
  LET log == NewLog(id, t, StartedType(op), "doc", Undefined, Some("did"),
                    Some(<< >>), "success")
      started == [ st |-> LogActivitySet(Load(st), log),
                   completions |-> << >>, steps |-> 0, threw |-> FALSE ]
      tried == RunBlock(started, TryBlock(op, found), 1, op, id, sid, t, fault)
  IN  IF tried.threw
      THEN [ RunBlock([ tried EXCEPT !.threw = FALSE ], CatchBlock, 1,
                      op, id, sid, t, fault)
               EXCEPT !.threw = TRUE ]
      ELSE tried

\* What the caller of a service operation observes, and what the operation
\* asked of the activity logger on the way.
ServiceResult(op, id, fault, r) ==
  [ op |-> op, id |-> id, arg |-> "", fault |-> fault,
    outcome |-> IF r.threw THEN "threw" ELSE "returned",
    wrote |-> TRUE, completions |-> r.completions, steps |-> r.steps ]

StoreFaults == { "none", "store" }

\* createDocument, deleteDocument or grantPermission on an initialized
\* service
ServiceCall(op, founds, faults) ==
  \E found \in founds, fault \in faults :
    LET r == ServiceRun(storage, op, found, nextId, ServiceId(nextId + 1),
                        now, fault)
    IN  /\ nextId <= MaxIds
        /\ storage' = r.st
        /\ nextId' = nextId + 2
        /\ ret' = ServiceResult(op, nextId, fault, r)
        /\ UNCHANGED now

CreateDocument == ServiceCall("createDocument", { TRUE }, StoreFaults)
DeleteDocument == ServiceCall("deleteDocument", BOOLEAN, StoreFaults)
GrantPermission == ServiceCall("grantPermission", { TRUE }, StoreFaults)

\* The service and the activity logger on a fresh installation or on a
\* nearly full collection.
NextService ==
  \/ CreateDocument /\ Untracked
  \/ DeleteDocument /\ Untracked
  \/ GrantPermission /\ Untracked
  \/ LogActivity({ "DOCUMENT_CREATED" }, { Undefined }, { "success" }, NoFault)
       /\ Untracked
  \/ ClearActivityLogs /\ Untracked
  \/ Tick

SpecService == InitLog /\ [][NextService]_vars

\* ------------------------------------------------------------ SpecAuth
\* AuthService over browser.storage.local.

\* browser.storage.local.set({ [key]: value })
LocalSet(l, key, value) == [ l EXCEPT ![key] = Some(value) ]

\* browser.storage.local.remove(keys)
LocalRemove(l, keys) == [ k \in DOMAIN l |-> IF k \in keys THEN Undefined ELSE l[k] ]

\* the keys disableAuth passes to remove, lines 191-196
DisabledKeys ==
  { "nillion_auth_enabled", "nillion_auth_method", "nillion_auth_hash",
    "nillion_auth_salt" }

\* DisabledKeys with the configKey among them
DisabledKeysWithConfig == DisabledKeys \cup { "nillion_auth_config" }

\* hashPassphrase: a digest of passphrase + salt, one value per pair
HashPassphrase(passphrase, salt) == << passphrase, salt >>

\* generateSalt draws 16 random bytes
Salts == { "s1", "s2" }
Methods == { "passphrase", "biometric" }
\* the passphrase argument: absent, empty, or one of two
Passphrases == { Undefined, Some(""), Some("pw"), Some("pw2") }

\* method === 'passphrase' && passphrase: the empty string is falsy
WithPassphrase(method, passphrase) ==
  method = "passphrase" /\ IsDefined(passphrase) /\ passphrase[1] /= ""

\* what setupAuth leaves in the store, lines 78-105
SetupAuthWrite(l, method, passphrase, salt) ==
  IF WithPassphrase(method, passphrase)
  THEN LocalSet(LocalSet(l, "nillion_auth_salt", salt), "nillion_auth_config",
                [ isEnabled |-> TRUE, method |-> method,
                  hashedPassphrase |-> HashPassphrase(passphrase[1], salt) ])
  ELSE LocalSet(l, "nillion_auth_config",
                [ isEnabled |-> TRUE, method |-> method ])

\* config?.isEnabled || false
IsAuthEnabledValue(l) ==
  IF IsDefined(l["nillion_auth_config"])
  THEN l["nillion_auth_config"][1].isEnabled
  ELSE FALSE

\* config?.method || null; null is Undefined here
AuthMethodValue(l) ==
  IF IsDefined(l["nillion_auth_config"])
  THEN Some(l["nillion_auth_config"][1].method)
  ELSE Undefined

\* verifyPassphrase, lines 148-161
VerifyPassphraseValue(l, passphrase) ==
  LET config == l["nillion_auth_config"]
      salt == l["nillion_auth_salt"]
  IN  IF ~IsDefined(config) \/ "hashedPassphrase" \notin DOMAIN config[1]
         \/ ~IsDefined(salt)
      THEN FALSE
      ELSE HashPassphrase(passphrase, salt[1]) = config[1].hashedPassphrase

AuthResult(op, value) ==
  [ ReadResult(op, value) EXCEPT !.wrote = op \in { "setupAuth", "disableAuth" } ]

SetupAuth ==
  \E method \in Methods, passphrase \in Passphrases, salt \in Salts :
    /\ kv' = SetupAuthWrite(kv, method, passphrase, salt)
    /\ ret' = AuthResult("setupAuth", method)

\* disableAuth: a rejected remove is caught and logged, the call returns
DisableAuth ==
  \E fault \in { "none", "remove" } :
    /\ kv' = IF fault = "none"
                THEN LocalRemove(kv, DisabledKeys)
                ELSE kv
    /\ ret' = [ AuthResult("disableAuth", "") EXCEPT !.fault = fault ]

IsAuthEnabled ==
  /\ ret' = AuthResult("isAuthEnabled", IsAuthEnabledValue(kv))
  /\ UNCHANGED kv

GetAuthMethod ==
  /\ ret' = AuthResult("getAuthMethod", AuthMethodValue(kv))
  /\ UNCHANGED kv

VerifyPassphrase ==
  \E passphrase \in { "pw", "pw2" } :
    /\ ret' = AuthResult("verifyPassphrase",
                         VerifyPassphraseValue(kv, passphrase))
    /\ UNCHANGED kv

\* changePassphrase, lines 204-214: setupAuth only when the old one verifies
ChangePassphrase ==
  \E oldPassphrase \in { "pw", "pw2" }, newPassphrase \in { "pw", "pw2" },
     salt \in Salts :
    /\ kv' = IF VerifyPassphraseValue(kv, oldPassphrase)
             THEN SetupAuthWrite(kv, "passphrase", Some(newPassphrase), salt)
             ELSE kv
    /\ ret' = AuthResult("changePassphrase",
                         VerifyPassphraseValue(kv, oldPassphrase))

AuthFrame == UNCHANGED << storage, now, nextId, run, calls, model, tab >>

NextAuth ==
  \/ SetupAuth /\ AuthFrame
  \/ DisableAuth /\ AuthFrame
  \/ IsAuthEnabled /\ AuthFrame
  \/ GetAuthMethod /\ AuthFrame
  \/ VerifyPassphrase /\ AuthFrame
  \/ ChangePassphrase /\ AuthFrame
  \/ Tick

SpecAuth == Init /\ [][NextAuth]_vars

\* ------------------------------------------------------------ SpecPermissions
\* The permission manager over its STORAGE_KEY, 'nillion_app_permissions'.

\* getAppPermissions: result[STORAGE_KEY] || []
AppPermissions(l) ==
  IF IsDefined(l["nillion_app_permissions"])
  THEN l["nillion_app_permissions"][1]
  ELSE << >>

\* permissions.findIndex(p => p.appDid === appDid), 1-based; 0 stands for -1
FindApp(permissions, appDid) ==
  IF \E i \in 1..Len(permissions) : permissions[i].appDid = appDid
  THEN CHOOSE i \in 1..Len(permissions) :
         /\ permissions[i].appDid = appDid
         /\ \A j \in 1..(i - 1) : permissions[j].appDid /= appDid
  ELSE 0

\* StoreAppPermissionWrite pushing whether or not the app has an entry
StoreAppPermissionPushes(permissions, permission) ==
  Append(permissions, permission)

\* storeAppPermission, lines 51-61: replace the app's entry or push
StoreAppPermissionWrite(permissions, permission) ==
  IF FindApp(permissions, permission.appDid) /= 0
  THEN [ permissions EXCEPT ![FindApp(permissions, permission.appDid)] =
           permission ]
  ELSE Append(permissions, permission)

\* appPermission.documents.some(doc => doc.collectionId === collectionId &&
\* doc.documentId === documentId)
DocExists(documents, collectionId, documentId) ==
  \E k \in 1..Len(documents) :
    /\ documents[k].collectionId = collectionId
    /\ documents[k].documentId = documentId

\* the AppPermission grantAppAccess hands to storeAppPermission, lines
\* 103-122: the app's entry, or a new one, with the document added if absent
GrantedPermission(permissions, appDid, appName, appOrigin, collectionId, documentId, granted, t) ==
  LET appPermission ==
        IF FindApp(permissions, appDid) /= 0
        THEN permissions[FindApp(permissions, appDid)]
        ELSE [ appDid |-> appDid, appName |-> appName,
               appOrigin |-> appOrigin, grantedAt |-> t,
               permissions |-> granted, documents |-> << >> ]
  IN  IF DocExists(appPermission.documents, collectionId, documentId)
      THEN appPermission
      ELSE [ appPermission EXCEPT
               !.documents = Append(@, [ collectionId |-> collectionId,
                                         documentId |-> documentId ]) ]

\* removeAppPermission: permissions.filter(p => p.appDid !== appDid)
RECURSIVE RemoveApp(_, _)
RemoveApp(permissions, appDid) ==
  IF permissions = << >>
  THEN << >>
  ELSE IF Head(permissions).appDid = appDid
  THEN RemoveApp(Tail(permissions), appDid)
  ELSE << Head(permissions) >> \o RemoveApp(Tail(permissions), appDid)

\* documents.filter(doc => !(doc.collectionId === collectionId &&
\* doc.documentId === documentId))
RECURSIVE RemoveDoc(_, _, _)
RemoveDoc(documents, collectionId, documentId) ==
  IF documents = << >>
  THEN << >>
  ELSE IF /\ Head(documents).collectionId = collectionId
          /\ Head(documents).documentId = documentId
  THEN RemoveDoc(Tail(documents), collectionId, documentId)
  ELSE << Head(documents) >>
       \o RemoveDoc(Tail(documents), collectionId, documentId)

\* what revokeAppAccess leaves under STORAGE_KEY, lines 151-163
RevokeWrite(l, appDid, collectionId, documentId) ==
  LET permissions == AppPermissions(l)
      i == FindApp(permissions, appDid)
      left == RemoveDoc(permissions[i].documents, collectionId, documentId)
  IN  IF i = 0
      THEN l
      ELSE IF left = << >>
      THEN LocalSet(l, "nillion_app_permissions", RemoveApp(permissions, appDid))
      ELSE LocalSet(l, "nillion_app_permissions",
                    StoreAppPermissionWrite(permissions,
                      [ permissions[i] EXCEPT !.documents = left ]))

\* The arguments: two apps, documents in two collections, two grants.
AppDids == { "app1", "app2" }
DocumentRefs == { << "c1", "d1" >>, << "c1", "d2" >>, << "c2", "d1" >> }
PermissionInputs ==
  { [ read |-> TRUE, write |-> FALSE, execute |-> FALSE ],
    [ read |-> TRUE, write |-> TRUE, execute |-> FALSE ] }

\* What the caller of a permission operation observes, with its arguments.
PermissionResult(op, id, threw, args) ==
  [ op |-> op, id |-> id, arg |-> "", fault |-> IF threw THEN "api" ELSE "none",
    outcome |-> IF threw THEN "threw" ELSE "returned", wrote |-> ~threw,
    args |-> args ]

\* the trailing logActivity(type, description, details) of an operation
LoggedAfter(type) ==
  Some(LogActivityWrite(Load(storage),
         NewLog(nextId, now, type, "doc", Some([ note |-> "doc" ]), Undefined,
                Undefined, "success")))

\* grantAppAccess, lines 87-138; nillionClient's grantAccess may reject
\* (`threw`), and then nothing is stored or logged
GrantAppAccess ==
  \E appDid \in AppDids, ref \in DocumentRefs, granted \in PermissionInputs,
     threw \in BOOLEAN :
    LET args == [ appDid |-> appDid, collectionId |-> ref[1],
                  documentId |-> ref[2], permissions |-> granted ]
        permission ==
          GrantedPermission(AppPermissions(kv), appDid, "name", "origin",
                            ref[1], ref[2], granted, now)
    IN  /\ nextId <= MaxIds
        /\ kv' = IF threw
                 THEN kv
                 ELSE LocalSet(kv, "nillion_app_permissions",
                        StoreAppPermissionWrite(AppPermissions(kv), permission))
        /\ storage' = IF threw THEN storage ELSE LoggedAfter("PERMISSION_GRANTED")
        /\ nextId' = IF threw THEN nextId ELSE nextId + 1
        /\ ret' = PermissionResult("grantAppAccess", nextId, threw, args)
        /\ UNCHANGED now

\* revokeAppAccess, lines 143-175
RevokeAppAccess ==
  \E appDid \in AppDids, ref \in DocumentRefs :
    LET args == [ appDid |-> appDid, collectionId |-> ref[1],
                  documentId |-> ref[2] ]
    IN  /\ nextId <= MaxIds
        /\ kv' = RevokeWrite(kv, appDid, ref[1], ref[2])
        /\ storage' = LoggedAfter("PERMISSION_REVOKED")
        /\ nextId' = nextId + 1
        /\ ret' = PermissionResult("revokeAppAccess", nextId, FALSE, args)
        /\ UNCHANGED now

\* clearAllAppPermissions
ClearAllAppPermissions ==
  /\ kv' = LocalRemove(kv, { "nillion_app_permissions" })
  /\ ret' = PermissionResult("clearAllAppPermissions", 0, FALSE, << >>)
  /\ UNCHANGED << storage, now, nextId >>

NextPermissions ==
  \/ GrantAppAccess /\ UNCHANGED << run, calls, model, tab >>
  \/ RevokeAppAccess /\ UNCHANGED << run, calls, model, tab >>
  \/ ClearAllAppPermissions /\ UNCHANGED << run, calls, model, tab >>
  \/ Tick

SpecPermissions == Init /\ [][NextPermissions]_vars

\* ------------------------------------------------------------ SpecMessages
\* The background script's two listeners: onMessage for content scripts and
\* the popup, onMessageExternal for web apps.
MessageType ==
  { "GET_IDENTITY", "GENERATE_IDENTITY", "IS_INITIALIZED", "GET_PROFILE",
    "LIST_DATA", "READ_DOCUMENT", "DELETE_DOCUMENT", "GRANT_ACCESS",
    "REVOKE_ACCESS", "GET_PERMISSIONS", "GET_DOCUMENT_APPS",
    "GET_ACTIVITY_LOGS", "REQUEST_PERMISSION", "REQUEST_DID" }

\* a message may carry any type: one of the enumeration, or another string
MessageInputs == MessageType \cup { "OTHER" }

\* AllowedTypes with GET_IDENTITY let through
AllowedTypesWithIdentity ==
  { "REQUEST_DID", "REQUEST_PERMISSION", "GET_IDENTITY" }

\* const allowedTypes = [MessageType.REQUEST_DID, MessageType.REQUEST_PERMISSION]
AllowedTypes == { "REQUEST_DID", "REQUEST_PERMISSION" }

\* One case of the onMessage switch, lines 43-238: the services it calls
\* in order, the activity type it logs if any, and what it responds with.
\* `identity` is whether getStoredIdentity finds an identity. A case that
\* throws, and the default case, end in the catch block's { error }.
Case(called, logged, response) ==
  [ called |-> called, logged |-> logged, response |-> response ]

Handled(type, identity) ==
  CASE type = "IS_INITIALIZED" ->
         Case(<< "isInitialized" >>, Undefined, "initialized")
    [] type = "GET_IDENTITY" ->
         Case(<< "getStoredIdentity" >>, Undefined,
              IF identity THEN "did, publicKey, privateKey" ELSE "error")
    [] type = "GENERATE_IDENTITY" ->
         Case(<< "generateIdentity", "logActivity" >>,
              Some("IDENTITY_CREATED"), "did, publicKey, privateKey")
    [] type = "GET_PROFILE" -> Case(<< "getUserProfile" >>, Undefined, "profile")
    [] type = "LIST_DATA" -> Case(<< "listUserData" >>, Undefined, "dataList")
    [] type = "READ_DOCUMENT" ->
         Case(<< "readDocument", "logActivity" >>, Some("DOCUMENT_READ"), "doc")
    [] type = "DELETE_DOCUMENT" ->
         Case(<< "deleteDocument", "logActivity" >>, Some("DOCUMENT_DELETED"),
              "result")
    [] type = "GRANT_ACCESS" -> Case(<< "grantAccess" >>, Undefined, "result")
    [] type = "REVOKE_ACCESS" -> Case(<< "revokeAccess" >>, Undefined, "result")
    [] type = "GET_PERMISSIONS" ->
         Case(<< "getAppPermissions" >>, Undefined, "permissions")
    [] type = "GET_DOCUMENT_APPS" ->
         Case(<< "getDocumentApps" >>, Undefined, "apps")
    [] type = "GET_ACTIVITY_LOGS" ->
         Case(<< "getActivityLogs" >>, Undefined, "logs")
    [] type = "REQUEST_PERMISSION" -> Case(<< >>, Undefined, "pending")
    [] type = "REQUEST_DID" ->
         IF identity
         THEN Case(<< "getStoredIdentity", "logActivity" >>,
                   Some("APP_CONNECTED"), "did, publicKey")
         ELSE Case(<< "getStoredIdentity" >>, Undefined, "error")
    [] OTHER -> Case(<< >>, Undefined, "error")

\* What the sender of a message observes, and what the listener did on the
\* way: whether it passed the message on, which case of the switch ran
\* ("" for none), and the services that case called.
MessageResult(op, type, forwarded, handled, case) ==
  [ op |-> op, id |-> 0, arg |-> type, fault |-> "none",
    outcome |-> "returned", wrote |-> IsDefined(case.logged),
    forwarded |-> forwarded, handled |-> handled, called |-> case.called,
    response |-> case.response ]

\* the onMessage listener on one message
Dispatch(op, type, identity, forwarded) ==
  LET case == Handled(type, identity)
  IN  /\ IsDefined(case.logged) => nextId <= MaxIds
      /\ storage' = IF IsDefined(case.logged)
                    THEN LoggedAfter(case.logged[1])
                    ELSE storage
      /\ nextId' = IF IsDefined(case.logged) THEN nextId + 1 ELSE nextId
      /\ ret' = MessageResult(op, type, forwarded, type, case)
      /\ UNCHANGED << now, kv >>

\* a message from a content script or the popup
OnMessage ==
  \E type \in MessageInputs, identity \in BOOLEAN :
    Dispatch("onMessage", type, identity, FALSE)

\* A message from a web app, lines 250-264. browser.runtime.sendMessage
\* resolves with the onMessage listener's response when the message is
\* delivered to it and rejects when there is no receiving end.
OnMessageExternal ==
  \E type \in MessageInputs, identity \in BOOLEAN, delivered \in BOOLEAN :
    IF type \notin AllowedTypes
    THEN /\ ret' = MessageResult("onMessageExternal", type, FALSE, "",
                                 Case(<< >>, Undefined, "error"))
         /\ UNCHANGED << storage, now, nextId, kv >>
    ELSE IF delivered
    THEN Dispatch("onMessageExternal", type, identity, TRUE)
    ELSE /\ ret' = [ MessageResult("onMessageExternal", type, TRUE, "",
                                   Case(<< >>, Undefined, "rejected"))
                       EXCEPT !.outcome = "threw" ]
         /\ UNCHANGED << storage, now, nextId, kv >>

NextMessages ==
  \/ OnMessage /\ UNCHANGED << run, calls, model, tab >>
  \/ OnMessageExternal /\ UNCHANGED << run, calls, model, tab >>
  \/ Tick

SpecMessages == Init /\ [][NextMessages]_vars

\* ------------------------------------------------------------ claims
Ids(logs) == { logs[i].id : i \in 1..Len(logs) }

\* The step is a call of `op` (a call leaves the clock alone; ret' holds it).
Called(op) == ret'.op = op /\ now' = now

\* The record a call on ret'.id acts on, before and after the call.
Target == FindIndex(Load(storage), ret'.id)
Before == Load(storage)[Target]
After == Load(storage')[Target]

\* C1: after any sequence of logActivity, startActivity, addSubStep,
\* completeActivity, updateActivityLog and clearActivityLogs calls the stored
\* collection holds at most MAX_LOGS (1000) records; a logActivity on a
\* collection of 1000 records drops the record at the tail and keeps the
\* new record at index 0, the other 999 records moving down by one.
C1_BoundedRetention ==
  /\ [](Len(Load(storage)) <= MAX_LOGS)
  /\ [][ /\ Len(Load(storage')) <= MAX_LOGS
         /\ (nextId' = nextId + 1 /\ Len(Load(storage)) = MAX_LOGS) =>
              /\ Len(Load(storage')) = MAX_LOGS
              /\ Load(storage')[1].id = ret'.id
              /\ ret'.id = nextId
              /\ SubSeq(Load(storage'), 2, MAX_LOGS)
                   = SubSeq(Load(storage), 1, MAX_LOGS - 1) ]_vars

\* C1 witness: a logActivity has run on a full collection and evicted the
\* oldest record.
C1_Evicted ==
  /\ ret.op \in { "logActivity", "startActivity" }
  /\ Len(Load(storage)) = MAX_LOGS
  /\ Load(storage)[1].id = ret.id
  /\ OldTailId \notin Ids(Load(storage))
  /\ Load(storage)[MAX_LOGS].id = OldTailId + 1

\* C2: after any sequence of logActivity calls the stored collection is
\* ordered newest-first by insertion: of two records present, the one
\* inserted later (ids are handed out in insertion order, and the records
\* of earlier sessions carry the ids below them) is at the lower index,
\* whatever the timestamps.
C2_NewestFirst ==
  \A i \in 1..(Len(Load(storage)) - 1) :
    Load(storage)[i].id > Load(storage)[i + 1].id

\* C2 witness: the record inserted last is at index 0 and carries an earlier
\* timestamp than the record inserted before it.
C2_LaterInsertEarlierTimestamp ==
  /\ Len(Load(storage)) >= 2
  /\ Load(storage)[1].id = ret.id
  /\ Load(storage)[2].id = ret.id - 1
  /\ Load(storage)[1].timestamp < Load(storage)[2].timestamp

MaxOrder(steps) ==
  IF steps = << >>
  THEN 0
  ELSE CHOOSE m \in { steps[k].order : k \in 1..Len(steps) } :
         \A k \in 1..Len(steps) : steps[k].order <= m

\* sub-steps numbered 1..n in sequence
Numbered(steps) == \A k \in 1..Len(steps) : steps[k].order = k

\* addSubStep took effect in this step
AddSubStepActed == Called("addSubStep") /\ ret'.wrote

CompleteActed == Called("completeActivity") /\ ret'.wrote

\* C5 (as claimed): once completeActivity has set a record's duration, a
\* later completeActivity on the same id leaves the duration as it was.
C5_DurationSetOnce ==
  [][ (CompleteActed /\ IsDefined(Before.duration)) =>
        After.duration = Before.duration ]_vars

\* C6: whenever completeActivity takes effect at clock value t on a record
\* with timestamp ts, the stored duration is t - ts, whatever duration or
\* sub-steps the record held, the timestamp stays, and with a clock that
\* never goes back the duration is >= 0.
C6_DurationFromTimestamp ==
  [][ CompleteActed =>
        /\ After.duration = Some(now - Before.timestamp)
        /\ After.timestamp = Before.timestamp
        /\ After.duration[1] >= 0 ]_vars

\* C6 witness: a completion at time 1 of a record created at time 0 that
\* was completed before at time 0 and got a sub-step at time 1.
C6_CompletedLater ==
  /\ ret.op = "completeActivity" /\ ret.wrote
  /\ \E i \in 1..Len(Load(storage)) :
       /\ Load(storage)[i].id = ret.id
       /\ Load(storage)[i].timestamp = 0
       /\ Load(storage)[i].duration = Some(1)
       /\ StepsOf(Load(storage)[i]) /= << >>
       /\ StepsOf(Load(storage)[i])[1].timestamp = 1

\* C7: addSubStep and completeActivity called with an id that is not in the
\* stored collection (never created, cleared, or evicted by retention)
\* return normally, call no storage.set and leave the store as it was.
C7_MissingIdIsNoOp ==
  [][ ( /\ Called("addSubStep") \/ Called("completeActivity")
        /\ ret'.id \notin Ids(Load(storage)) ) =>
        /\ storage' = storage
        /\ ~ ret'.wrote
        /\ ret'.outcome = "returned" ]_vars

\* C7 witness: a call on the id of the record retention has evicted.
C7_EvictedIdCall ==
  /\ ret.op \in { "addSubStep", "completeActivity" }
  /\ ret.id = OldTailId
  /\ ~ ret.wrote
  /\ Len(Load(storage)) = MAX_LOGS

\* C8 (as claimed): when storage.get or storage.set rejects during a call,
\* logActivity (and startActivity through it) rejects to its caller, while
\* addSubStep and completeActivity return normally.
C8_FailureSemantics ==
  (ret.fault /= "none") =>
    IF ret.op \in { "logActivity", "startActivity" }
    THEN ret.outcome = "threw"
    ELSE ret.outcome = "returned"

\* the call of caller c returns in this step
Returns(c) == calls[c].pc = "read" /\ calls'[c].pc = "idle"

\* C9: a call that read the collection before another call's write and
\* writes after it stores its own effect on the collection it read: both
\* calls return normally and what the other call wrote in between is gone
\* from the store.
C9_StaleWriteWins ==
  [][ \A c \in Callers :
        (Returns(c) /\ ret'.wrote) =>
          /\ ret'.outcome = "returned"
          /\ Load(storage') = Effect(calls[c].logs, calls[c], now) ]_vars

\* C9 witness: every call has returned; two activities were created, the
\* first was given a sub-step and completed, and the store holds the first
\* activity alone, completed and without the sub-step.
C9_UpdatesLost ==
  /\ \A c \in Callers : calls[c].pc = "idle"
  /\ ret.outcome = "returned"
  /\ Len(model) = 2
  /\ StepsOf(model[2]) /= << >>
  /\ IsDefined(model[2].duration)
  /\ Len(Load(storage)) = 1
  /\ Load(storage)[1].id = model[2].id
  /\ StepsOf(Load(storage)[1]) = << >>
  /\ IsDefined(Load(storage)[1].duration)

\* C10: with at most one call in flight at a time, each call that returns
\* leaves the collection stored before it with that call's effect applied,
\* and the stored collection equals the abstract list that received every
\* call's effect in call order.
C10_SerializedRefinesList ==
  /\ [](Load(storage) = model)
  /\ [][ \A c \in Callers :
            Returns(c) =>
              Load(storage') = Effect(Load(storage), calls[c], now) ]_vars

\* C10 witness: the callers took turns; two activities were created at
\* different times, the first was given a sub-step and completed later than
\* it was created, and the store holds all of it.
C10_AllUpdatesKept ==
  /\ \A c \in Callers : calls[c].pc = "idle"
  /\ Len(Load(storage)) = 2
  /\ Load(storage)[1].timestamp = 1
  /\ Load(storage)[2].timestamp = 0
  /\ StepsOf(Load(storage)[2]) /= << >>
  /\ Load(storage)[2].duration = Some(1)
  /\ Load(storage)[2].status = "failed"

\* the record retention evicts when logActivity runs on a full collection
Evicted(logs) == IF Len(logs) >= MAX_LOGS THEN { logs[MAX_LOGS].id } ELSE { }

\* C11 (as claimed): a record present in the stored collection is present
\* after every step, unless the step is clearActivityLogs or a logActivity
\* whose retention cut pushes that record beyond position MAX_LOGS.
C11_RemovedOnlyByClearOrEviction ==
  [][ LET gone == Ids(Load(storage)) \ Ids(Load(storage'))
      IN  \/ gone = { }
          \/ ret'.op = "clearActivityLogs"
          \/ /\ ret'.op \in { "logActivity", "startActivity" }
             /\ gone \subseteq Evicted(Load(storage)) ]_vars

\* a call took effect on the record with the id it was given
ActedOnRecord ==
  /\ now' = now
  /\ ret'.op \in { "addSubStep", "completeActivity", "updateActivityLog" }
  /\ ret'.wrote

\* the fields the data model fixes at creation
CreationFields ==
  { "id", "timestamp", "type", "description", "details", "userDid",
    "metadata" }

\* C12 (as claimed): whatever exported operation takes effect on a record,
\* the record keeps its id, timestamp, type, description, details, userDid
\* and metadata.
C12_CreationFieldsKept ==
  [][ ActedOnRecord => \A f \in CreationFields : After[f] = Before[f] ]_vars

\* C13 (as claimed): once completeActivity has taken effect on a record
\* (in these behaviours exactly the records that hold a duration), no
\* later call changes the record's status.
C13_StatusOverwrittenOnce ==
  [][ (ActedOnRecord /\ IsDefined(Before.duration)) =>
        After.status = Before.status ]_vars

\* sub-steps whose order values increase from 1
OrdersFromOne(steps) ==
  /\ steps /= << >> => steps[1].order = 1
  /\ \A k \in 1..(Len(steps) - 1) : steps[k].order < steps[k + 1].order

\* C14 (as claimed): every record's sub-steps have order values increasing
\* from 1, and a call that takes effect on a record leaves the sub-steps
\* the record had as a prefix of the sub-steps it has afterwards.
C14_SubStepsAppendOnly ==
  /\ [](\A i \in 1..Len(Load(storage)) :
          OrdersFromOne(StepsOf(Load(storage)[i])))
  /\ [][ ActedOnRecord =>
           /\ Len(StepsOf(Before)) <= Len(StepsOf(After))
           /\ SubSeq(StepsOf(After), 1, Len(StepsOf(Before)))
                = StepsOf(Before) ]_vars

\* C15 (as claimed): with no completeActivity called, no record holds a
\* duration.
C15_NoDurationBeforeCompletion ==
  \A i \in 1..Len(Load(storage)) : ~ IsDefined(Load(storage)[i].duration)

\* the last call was one of the two statistics queries
StatsReturned == ret.op \in { "getActivityStats", "getDetailedActivityStats" }

\* C16: with the key absent getActivityLogs returns the empty sequence and
\* the statistics report total 0 and no lastActivity, without failing;
\* clearActivityLogs leaves the key absent whatever it held, and an absent
\* key stays absent until a logActivity (or startActivity) call.
C16_EmptyUntilNextLog ==
  /\ [](storage = Undefined =>
          /\ ret.op = "getActivityLogs" =>
               ret.value = << >> /\ ret.outcome = "returned"
          /\ StatsReturned =>
               /\ ret.value.total = 0
               /\ ret.value.lastActivity = Undefined
               /\ ret.outcome = "returned")
  /\ [][ Called("clearActivityLogs") => storage' = Undefined ]_vars
  /\ [][ (storage = Undefined /\ storage' /= Undefined) =>
           ret'.op \in { "logActivity", "startActivity" } ]_vars

\* C16 witness: statistics read from the absent key after records had been
\* added to a stored collection and all of it cleared.
C16_StatsAfterClear ==
  /\ ret.op = "getDetailedActivityStats"
  /\ storage = Undefined
  /\ nextId > 1
  /\ ret.value.total = 0

\* the indices of the records that hold a duration, whatever its value
WithDuration(logs) == { i \in 1..Len(logs) : IsDefined(logs[i].duration) }

\* the sum of the durations the records from index i on hold
RECURSIVE DurationSum(_, _)
DurationSum(logs, i) ==
  IF i > Len(logs)
  THEN 0
  ELSE (IF IsDefined(logs[i].duration) THEN logs[i].duration[1] ELSE 0)
         + DurationSum(logs, i + 1)

\* C17 (as claimed): averageDuration is absent exactly when no record holds
\* a duration, and otherwise is the sum of the durations held divided by
\* the number of records that hold one, a duration of 0 included.
C17_MeanOverPresentDurations ==
  ret.op = "getDetailedActivityStats" =>
    LET logs == Load(storage)
        avg == ret.value.averageDuration
    IN  /\ IsDefined(avg) <=> WithDuration(logs) /= { }
        /\ IsDefined(avg) =>
             avg[1].num * Cardinality(WithDuration(logs))
               = DurationSum(logs, 1) * avg[1].den

\* the number of records whose field f holds v
Holding(logs, f, v) == Cardinality({ i \in 1..Len(logs) : logs[i][f] = v })

\* the map counts, for field f, exactly the values the records hold
CountsField(map, logs, f) ==
  /\ DOMAIN map = { logs[i][f] : i \in 1..Len(logs) }
  /\ \A v \in DOMAIN map : map[v] = Holding(logs, f, v) /\ map[v] > 0

\* the sum of a map's counts
RECURSIVE SumOf(_, _)
SumOf(map, keys) ==
  IF keys = { }
  THEN 0
  ELSE LET k == CHOOSE k \in keys : TRUE
       IN  map[k] + SumOf(map, keys \ { k })

\* C18: getActivityStats and getDetailedActivityStats return total = the
\* number of records, byType (and byStatus) holding for each type (status)
\* present the number of records with it and no other key, so that the
\* counts sum to total, and lastActivity = the record at index 0, absent
\* on the empty collection.
C18_StatsCountRecords ==
  StatsReturned =>
    LET logs == Load(storage)
        stats == ret.value
    IN  /\ stats.total = Len(logs)
        /\ CountsField(stats.byType, logs, "type")
        /\ SumOf(stats.byType, DOMAIN stats.byType) = stats.total
        /\ stats.lastActivity = (IF Len(logs) = 0 THEN Undefined ELSE Some(logs[1]))
        /\ ret.op = "getDetailedActivityStats" =>
             /\ CountsField(stats.byStatus, logs, "status")
             /\ SumOf(stats.byStatus, DOMAIN stats.byStatus) = stats.total

\* C18 witness: detailed statistics of three records, two of one type and
\* one of another, with three different statuses.
C18_MixedCollectionCounted ==
  /\ ret.op = "getDetailedActivityStats"
  /\ ret.value.total = 3
  /\ ret.value.byType["DOCUMENT_CREATED"] = 2
  /\ ret.value.byType["DATA_EXPORTED"] = 1
  /\ Cardinality(DOMAIN ret.value.byStatus) = 3
  /\ ret.value.lastActivity = Some(Load(storage)[1])

\* the downloadActivityLogs call of caller c returns normally in this step
DownloadReturns(c) ==
  /\ calls[c].op = "downloadActivityLogs"
  /\ calls[c].pc = "read"
  /\ calls'[c].pc = "idle"

\* the DATA_EXPORTED records of a collection
Exported(logs) == { i \in 1..Len(logs) : logs[i].type = "DATA_EXPORTED" }

ExportedIds(logs) == { logs[i].id : i \in Exported(logs) }

\* C19 (as claimed): when a downloadActivityLogs call returns normally the
\* collection has gained exactly one DATA_EXPORTED record, the call's own,
\* and that record's details hold the format chosen, the name the delivered
\* file was given and a count equal to the number of records the exported
\* content rendered.
C19_ExportLogged ==
  [][ \A c \in Callers :
        DownloadReturns(c) =>
          LET logs == Load(storage')
              own == { i \in Exported(logs) : logs[i].id = calls[c].id }
          IN  /\ Cardinality(own) = 1
              /\ Cardinality(Exported(logs))
                   = Cardinality(Exported(calls[c].logs)) + 1
              /\ \A i \in own :
                   /\ IsDefined(logs[i].details)
                   /\ logs[i].details[1].format = calls[c].arg
                   /\ logs[i].details[1].filename = calls[c].filename[1]
                   /\ logs[i].details[1].count = Len(calls[c].content[1]) ]_vars

\* C20: a DATA_EXPORTED record enters the collection only in the step in
\* which a downloadActivityLogs call returns, a call that has generated
\* its content and delivered the file; a call whose content generation or
\* delivery fails rejects to its caller, is over, and leaves the stored
\* collection as it was.
C20_ExportLoggedAfterContent ==
  /\ [][ ExportedIds(Load(storage')) \ ExportedIds(Load(storage)) /= { } =>
           \E c \in Callers :
             /\ DownloadReturns(c)
             /\ IsDefined(calls[c].content)
             /\ IsDefined(calls[c].filename) ]_vars
  /\ [][ (ret'.op = "downloadActivityLogs" /\ ret'.fault /= "none"
            /\ ret' /= ret) =>
           /\ ret'.outcome = "threw"
           /\ storage' = storage
           /\ \A c \in Callers : calls'[c].pc = "idle" ]_vars

\* C20 witness: a download whose delivery failed, after an earlier download
\* had completed: the collection holds the one DATA_EXPORTED record of the
\* earlier download.
C20_FailedDelivery ==
  /\ ret.op = "downloadActivityLogs"
  /\ ret.fault = "deliver"
  /\ ret.outcome = "threw"
  /\ Cardinality(Exported(Load(storage))) = 1
  /\ \A c \in Callers : calls[c].pc = "idle"

\* C30: every record stored under the activity-log key has a type of the
\* ActivityType enumeration and a status among success, failed and warning,
\* whichever component wrote it.
C30_TypesAndStatusesClosed ==
  \A i \in DOMAIN Load(storage) :
    LET log == Load(storage)[i] IN
      /\ "type" \in DOMAIN log /\ log.type \in ActivityType
      /\ "status" \in DOMAIN log /\ log.status \in LogStatus

\* C29: startActivity(type, description, details, userDid) leaves the
\* stored collection that logActivity(type, description, details, userDid,
\* [], 'success') leaves from the same collection, with the fresh id and
\* the current time, and returns the id of the new record, whose subSteps
\* is the empty sequence.
C29_StartIsLogWithNoSteps ==
  [][Called("startActivity") =>
       /\ ret'.outcome = "returned"
       /\ ret'.id = nextId
       /\ \E type \in ActivityType :
            storage' = Some(LogActivityWrite(Load(storage),
                         NewLog(ret'.id, now, type, "doc", Undefined,
                                Undefined, Some(<< >>), "success")))
       /\ Load(storage')[1].id = ret'.id
       /\ Load(storage')[1].subSteps = Some(<< >>)]_vars

\* C29 witness: startActivity returned on a collection that already held
\* records, and the record it returned the id of is the newest one, with an
\* empty sub-step sequence and status success.
C29_StartedOnHeldCollection ==
  /\ ret.op = "startActivity"
  /\ ret.outcome = "returned"
  /\ Len(Load(storage)) >= 2
  /\ Load(storage)[1].id = ret.id
  /\ Load(storage)[1].subSteps = Some(<< >>)
  /\ Load(storage)[1].status = "success"

\* The start of the local day that holds time t in a zone: the midnight,
\* among the zone's midnights, that t is at or after by less than a day.
LocalMidnight(t, zone) ==
  LET d == CHOOSE k \in 0..30 :
             /\ k * DayMs - ZoneOffset(zone) <= t
             /\ t < (k + 1) * DayMs - ZoneOffset(zone)
  IN  d * DayMs - ZoneOffset(zone)

\* The records of the collection stamped with a time at or after `bound`.
StampedFrom(logs, bound) ==
  { i \in 1..Len(logs) : NumberStamped(logs[i]) /\ logs[i].timestamp >= bound }

\* C28: todayCount is the number of records whose timestamp is at or after
\* the start of the current local day, and weekCount the number of records
\* whose timestamp is at or after now minus 7*24*3600*1000 ms, both bounds
\* included, whatever the collection, the time and the zone.
C28_TodayAndWeekCounts ==
  ret.op = "getDetailedActivityStats" =>
    /\ ret.value.todayCount =
         Cardinality(StampedFrom(Load(storage), LocalMidnight(now, ret.arg)))
    /\ ret.value.weekCount =
         Cardinality(StampedFrom(Load(storage), now - 7 * 24 * 3600 * 1000))

\* C28 witness: in a zone behind UTC, away from UTC midnight, the
\* statistics count for today the record stamped at local midnight exactly
\* and not the record one millisecond older, and both for the week.
C28_BoundaryRecordsCounted ==
  /\ ret.op = "getDetailedActivityStats"
  /\ ret.arg = "EST"
  /\ now % DayMs /= 0
  /\ Len(Load(storage)) = 2
  /\ \A i \in 1..2 : NumberStamped(Load(storage)[i])
  /\ Load(storage)[1].timestamp = LocalMidnight(now, "EST")
  /\ Load(storage)[2].timestamp = LocalMidnight(now, "EST") - 1
  /\ ret.value.todayCount = 1
  /\ ret.value.weekCount = 2

\* The query, statistics and export operations.
ReadOps ==
  { "getActivityLogs", "getActivityLogsByType", "getActivityLogsByTimeRange",
    "searchActivityLogs", "getActivityStats", "getDetailedActivityStats",
    "exportActivityLogs", "exportActivityLogsAsCSV" }

\* C24: getActivityLogs, getActivityLogsByType, getActivityLogsByTimeRange,
\* searchActivityLogs, getActivityStats, getDetailedActivityStats,
\* exportActivityLogs and exportActivityLogsAsCSV leave what is stored under
\* the key as it was, whatever is stored and whatever the arguments.
C24_ReadsNeverWrite ==
  [][(ret'.op \in ReadOps /\ now' = now) => storage' = storage]_vars

\* C24 witness: a CSV export returned its text over a full sample
\* collection, which is still stored.
C24_ExportedAndStillStored ==
  /\ ret.op = "exportActivityLogsAsCSV"
  /\ ret.outcome = "returned"
  /\ Len(ret.value) > Len(Chars("No logs to export"))
  /\ Len(Load(storage)) = MaxStored

\* The records of `logs` at the positions `at`, in collection order, and
\* the first n of them.
KthOf(at, k) == CHOOSE i \in at : Cardinality({ j \in at : j <= i }) = k
Picked(logs, at, n) == [ k \in 1..Min(n, Cardinality(at)) |-> logs[KthOf(at, k)] ]

\* The positions of the records of a type, and of the records stamped with
\* a time from `start` to `end`.
OfType(logs, type) ==
  { i \in 1..Len(logs) : "type" \in DOMAIN logs[i] /\ logs[i].type = type }
Within(logs, start, end) ==
  { i \in 1..Len(logs) :
      /\ NumberStamped(logs[i])
      /\ start <= logs[i].timestamp
      /\ logs[i].timestamp <= end }

\* C27: getActivityLogsByTimeRange(start, end) returns exactly the records
\* with start <= timestamp <= end, both bounds included, and
\* getActivityLogsByType(type, limit) the records of that type in
\* collection order, cut to the first limit matches when limit is a
\* positive number and complete otherwise.
C27_RangeAndTypeFilters ==
  LET logs == Load(storage) IN
    /\ ret.op = "getActivityLogsByTimeRange" =>
         /\ ret.outcome = "returned"
         /\ ret.value =
              Picked(logs, Within(logs, ret.args.startTime, ret.args.endTime),
                     Len(logs))
    /\ ret.op = "getActivityLogsByType" =>
         /\ ret.outcome = "returned"
         /\ ret.value =
              Picked(logs, OfType(logs, ret.args.type),
                     IF IsDefined(ret.args.limit) /\ ret.args.limit[1] > 0
                     THEN ret.args.limit[1]
                     ELSE Len(logs))

\* C27 witness: of three stored records of one type, the type filter with
\* limit 2 returned the first two.
C27_TypeFilterTruncated ==
  /\ ret.op = "getActivityLogsByType"
  /\ ret.args.limit = Some(2)
  /\ Cardinality(OfType(Load(storage), ret.args.type)) = 3
  /\ Len(ret.value) = 2
  /\ ret.value = SubSeq(Load(storage), 1, 2)

\* The lower-cased texts of a record a search looks into: its description,
\* its type and the JSON rendering of its details, each where present.
Searched(log) ==
  (IF "description" \in DOMAIN log
   THEN { ToLowerCase(Chars(log.description)) } ELSE { })
  \cup (IF "type" \in DOMAIN log
        THEN { ToLowerCase(Chars(log.type)) } ELSE { })
  \cup (IF "documentId" \in DOMAIN log
        THEN { ToLowerCase(JsonString(log.details)) }
        ELSE IF IsDefined(Get(log, "details"))
             THEN { ToLowerCase(JsonObject(log.details[1])) }
             ELSE { })

\* The positions of the records a query matches.
Matching(logs, query) ==
  { i \in 1..Len(logs) :
      \E text \in Searched(logs[i]) :
        Includes(text, ToLowerCase(Chars(query))) }

\* C25: searchActivityLogs(query) returns, in collection order, exactly the
\* records for which the lower-cased query is a substring of the
\* lower-cased description, type or JSON rendering of details; the empty
\* query returns every record of the collection.
C25_SearchSemantics ==
  ret.op = "searchActivityLogs" =>
    /\ ret.outcome = "returned"
    /\ ret.value =
         Picked(Load(storage), Matching(Load(storage), ret.args.query),
                Len(Load(storage)))
    /\ ret.args.query = "" => ret.value = Load(storage)

\* The records of a collection that have both an id and a type.
Shaped(logs) ==
  SelectSeq(logs, LAMBDA log : "id" \in DOMAIN log /\ "type" \in DOMAIN log)

\* C21: a record read back without id or without type is skipped by the
\* search, the type filter, the time-range filter and both statistics: each
\* ends as it ends on the collection without such records (it does not
\* throw because of them) and returns what it returns on that collection.
C21_MalformedSkipped ==
  LET shaped == Shaped(Load(storage)) IN
    /\ ret.op = "searchActivityLogs" =>
         LET r == SearchActivityLogsValue(shaped, ret.args.query)
         IN  ret.outcome = r.outcome /\ ret.value = r.value
    /\ ret.op = "getActivityLogsByType" =>
         ret.value = ActivityLogsByType(shaped, ret.args.type, ret.args.limit)
    /\ ret.op = "getActivityLogsByTimeRange" =>
         ret.value = ActivityLogsByTimeRange(shaped, ret.args.startTime,
                                             ret.args.endTime)
    /\ ret.op = "getActivityStats" => ret.value = ActivityStats(Some(shaped))
    /\ ret.op = "getDetailedActivityStats" =>
         ret.value = DetailedActivityStats(Some(shaped), now, ret.arg)

\* Reading CSV text back with the standard quoting rules: a comma ends a
\* field and a line feed a row, except inside a quoted field; a field that
\* starts with a double quote runs to the next double quote that is not
\* doubled, and a doubled one stands for one double quote.
\* (The parts of the reader, for the text from position i on.)
\* The first position from i on that holds a comma or a line feed, or the
\* position after the text.
FieldEnd(text, i) ==
  IF \E j \in i..Len(text) : text[j] \in { ",", "\n" }
  THEN CHOOSE j \in i..Len(text) :
         /\ text[j] \in { ",", "\n" }
         /\ \A k \in i..(j - 1) : text[k] \notin { ",", "\n" }
  ELSE Len(text) + 1

\* The double quotes among positions a..b.
QuotesIn(text, a, b) == { k \in a..b : text[k] = "\"" }

\* Position j closes the quoted field opened at i: a double quote that is
\* not the first of a doubled pair.
Closes(text, i, j) ==
  /\ text[j] = "\""
  /\ j = Len(text) \/ text[j + 1] /= "\""
  /\ Cardinality(QuotesIn(text, i + 1, j - 1)) % 2 = 0

\* The closing quote of the field opened at i, or the position after the
\* text when the field is never closed.
ClosingQuote(text, i) ==
  IF \E j \in (i + 1)..Len(text) : Closes(text, i, j)
  THEN CHOOSE j \in (i + 1)..Len(text) :
         /\ Closes(text, i, j)
         /\ \A k \in (i + 1)..(j - 1) : ~Closes(text, i, k)
  ELSE Len(text) + 1

\* The content of positions a..b of a quoted field, with each doubled
\* double quote read as one.
Undoubled(text, a, b) ==
  LET kept == { k \in a..b :
                  \/ text[k] /= "\""
                  \/ Cardinality(QuotesIn(text, a, k)) % 2 = 1 }
  IN  [ m \in 1..Cardinality(kept) |->
          text[CHOOSE k \in kept : Cardinality({ j \in kept : j <= k }) = m] ]

\* The field that starts at i: its value and the position of what ends it.
\* What follows a closing quote up to the next separator is kept as it is.
FieldAt(text, i) ==
  IF i <= Len(text) /\ text[i] = "\""
  THEN LET close == ClosingQuote(text, i)
           end == FieldEnd(text, close + 1)
       IN  [ value |-> Undoubled(text, i + 1, close - 1)
                         \o SubSeq(text, close + 1, end - 1),
             end |-> end ]
  ELSE [ value |-> SubSeq(text, i, FieldEnd(text, i) - 1),
         end |-> FieldEnd(text, i) ]

RECURSIVE CsvParse(_, _, _, _)
CsvParse(text, i, fields, rows) ==
  LET field == FieldAt(text, i) IN
    IF field.end > Len(text)
    THEN Append(rows, Append(fields, field.value))
    ELSE IF text[field.end] = ","
         THEN CsvParse(text, field.end + 1, Append(fields, field.value), rows)
         ELSE CsvParse(text, field.end + 1, << >>,
                       Append(rows, Append(fields, field.value)))
ParsedCsv(text) == CsvParse(text, 1, << >>, << >>)

\* The id and timestamp a data row starts with, as the export writes them.
RowKey(log) == << Cell(log, "id"), Cell(log, "timestamp") >>

\* C22: exportActivityLogsAsCSV returns exactly 'No logs to export' on an
\* empty collection, and on a collection of n >= 1 records the header row
\* of the 10 column names followed by exactly n data rows, one per record,
\* in collection order.
C22_CsvShape ==
  ret.op = "exportActivityLogsAsCSV" =>
    LET logs == Load(storage) IN
      /\ ret.outcome = "returned"
      /\ IF Len(logs) = 0
         THEN ret.value = Chars("No logs to export")
         ELSE LET rows == ParsedCsv(ret.value) IN
                /\ Len(rows) = Len(logs) + 1
                /\ rows[1] = [ k \in 1..10 |-> Chars(CsvHeaders[k]) ]
                /\ \A i \in 1..Len(logs) :
                     SubSeq(rows[i + 1], 1, 2) = RowKey(logs[i])

\* C23: in every data row of a CSV export the Description, Details and
\* Sub Steps fields are quoted with every embedded double quote doubled:
\* reading the row back with the standard quoting rules gives exactly 10
\* fields, the original description, the JSON text of details and the
\* '; '-joined '<order>. <description> [<status>]' rendering of the
\* sub-steps.
C23_CsvQuotingRoundTrip ==
  (ret.op = "exportActivityLogsAsCSV" /\ ret.outcome = "returned"
     /\ Len(Load(storage)) > 0) =>
    LET logs == Load(storage)
        rows == ParsedCsv(ret.value)
    IN  \A i \in 1..Len(logs) :
          /\ i + 1 <= Len(rows)
          /\ Len(rows[i + 1]) = 10
          /\ rows[i + 1][5] = Chars(logs[i].description)
          /\ rows[i + 1][9] =
               (IF IsDefined(Get(logs[i], "details"))
                THEN JsonObject(logs[i].details[1])
                ELSE << >>)
          /\ rows[i + 1][10] = SubStepsText(logs[i])

\* The positions of the records of the loaded logs that each input of the
\* tab selects by itself: every record when the input is not active.
SearchPicks(t) ==
  IF Trim(Chars(t.searchQuery)) /= << >>
  THEN Matching(t.logs, t.searchQuery)
  ELSE 1..Len(t.logs)
TypePicks(t) ==
  IF t.filterType /= "all" THEN OfType(t.logs, t.filterType) ELSE 1..Len(t.logs)
StatusPicks(t) ==
  IF t.filterStatus /= "all"
  THEN { i \in 1..Len(t.logs) :
           "status" \in DOMAIN t.logs[i] /\ t.logs[i].status = t.filterStatus }
  ELSE 1..Len(t.logs)

\* C26: combined filtering (search, type filter, status filter) shows
\* exactly the records of the loaded collection that satisfy every active
\* predicate: the intersection of the three sets each filter selects from
\* that collection by itself, which does not depend on the order of the
\* filters.
C26_FiltersIntersect ==
  ret.op = "applyFilters" =>
    /\ ret.outcome = "returned"
    /\ tab.filteredLogs =
         Picked(tab.logs,
                SearchPicks(tab) \cap TypePicks(tab) \cap StatusPicks(tab),
                Len(tab.logs))

\* C31: with uuidv4 returning a fresh value on every call, no two records
\* of the stored collection have the same id.
C31_IdsUnique ==
  Cardinality(Ids(Load(storage))) = Len(Load(storage))

\* C32: addSubStep on the id of a record completeActivity has completed is
\* accepted: when storage answers, the call writes; the write appends one
\* sub-step whose order is the number of sub-steps held + 1 and leaves the
\* record's status and duration as completeActivity set them.
C32_AddAfterComplete ==
  [][ /\ ( /\ Called("addSubStep") /\ ret'.fault = "none"
           /\ Target /= 0 /\ IsDefined(Before.duration) ) => ret'.wrote
      /\ (AddSubStepActed /\ IsDefined(Before.duration)) =>
           /\ Len(StepsOf(After)) = Len(StepsOf(Before)) + 1
           /\ SubSeq(StepsOf(After), 1, Len(StepsOf(Before)))
                = StepsOf(Before)
           /\ StepsOf(After)[Len(StepsOf(After))].order
                = Len(StepsOf(Before)) + 1
           /\ After.status = Before.status
           /\ After.duration = Before.duration ]_vars

\* C32 witness: addSubStep has acted on a record that completeActivity had
\* marked failed with a duration; the record still holds both.
C32_StepOnCompletedRecord ==
  /\ ret.op = "addSubStep" /\ ret.wrote
  /\ \E i \in 1..Len(Load(storage)) :
       /\ Load(storage)[i].id = ret.id
       /\ IsDefined(Load(storage)[i].duration)
       /\ Load(storage)[i].status = "failed"
       /\ StepsOf(Load(storage)[i]) /= << >>

\* the records other than the target are the same records at the same
\* indexes, and the collection has the same length
OthersKept ==
  /\ Len(Load(storage')) = Len(Load(storage))
  /\ \A i \in 1..Len(Load(storage)) :
       i /= Target => Load(storage')[i] = Load(storage)[i]

\* the target keeps every field but those in `fields`
FieldsKeptBut(fields) ==
  /\ DOMAIN After = DOMAIN Before
  /\ \A f \in DOMAIN Before \ fields : After[f] = Before[f]

\* C33: an addSubStep that takes effect changes only the subSteps field of
\* the record with that id, and a completeActivity that takes effect changes
\* only that record's status and duration; every other field of the record,
\* every other record, the length and the order of the collection stay.
C33_FrameOfStepAndComplete ==
  [][ /\ AddSubStepActed =>
           /\ OthersKept
           /\ FieldsKeptBut({ "subSteps" })
           /\ After.subSteps /= Before.subSteps
      /\ CompleteActed =>
           /\ OthersKept
           /\ FieldsKeptBut({ "status", "duration" }) ]_vars

\* C33 witness: at clock 1 completeActivity has marked the older of two
\* records failed; the newer record holds a sub-step and no duration.
C33_CompletedBesideAnother ==
  /\ ret.op = "completeActivity" /\ ret.wrote /\ now = 1
  /\ Len(Load(storage)) = 2
  /\ Load(storage)[2].id = ret.id
  /\ Load(storage)[2].status = "failed"
  /\ Load(storage)[2].duration = Some(1)
  /\ StepsOf(Load(storage)[1]) /= << >>
  /\ ~IsDefined(Load(storage)[1].duration)

\* C34: when NillionService.createDocument has returned normally, run with
\* no other call in between, the stored collection holds the record with
\* the id startActivity returned, with one sub-step for every addSubStep
\* call the operation made, status success and a duration, whatever the
\* size of the collection before the call.
C34_CreateDocumentRecorded ==
  (ret.op = "createDocument" /\ ret.outcome = "returned") =>
    \E i \in 1..Len(Load(storage)) :
      /\ Load(storage)[i].id = ret.id
      /\ Len(StepsOf(Load(storage)[i])) = ret.steps
      /\ Load(storage)[i].status = "success"
      /\ IsDefined(Load(storage)[i].duration)

\* C35: on every path through createDocument, deleteDocument and
\* grantPermission completeActivity is called exactly once for the activity
\* startActivity opened: with success when the operation returns, with
\* failed when it throws.
C35_CompletedExactlyOnce ==
  ret.op \in ServiceOps =>
    ret.completions
      = IF ret.outcome = "returned" THEN << "success" >> ELSE << "failed" >>

\* the position of a record in the order of insertion: the logger's uuid
\* and the service's generateId are drawn one after the other
Inserted(log) == IF log.id > MAX_LOGS THEN log.id - MAX_LOGS ELSE log.id

\* C36: every writer of the key inserts at index 0: the stored collection
\* is ordered newest-first by insertion, so each record was inserted after
\* the one behind it and the record at index 0 is the latest one inserted.
C36_NewestFirstByInsertion ==
  \A i \in 1..(Len(Load(storage)) - 1) :
    Inserted(Load(storage)[i]) > Inserted(Load(storage)[i + 1])

\* authentication reads as disabled: isAuthEnabled would return false and
\* getAuthMethod null
AuthOff(l) == IsAuthEnabledValue(l) = FALSE /\ AuthMethodValue(l) = Undefined

\* C37: a disableAuth whose remove succeeded leaves authentication
\* disabled, it stays disabled under every call but setupAuth, and while
\* it is disabled isAuthEnabled returns false and getAuthMethod returns
\* null, whatever method and passphrase were configured before.
C37_DisabledAfterDisableAuth ==
  [][ /\ (Called("disableAuth") /\ ret'.fault = "none") => AuthOff(kv')
      /\ (AuthOff(kv) /\ ret'.op /= "setupAuth") => AuthOff(kv')
      /\ (AuthOff(kv) /\ ret'.op = "isAuthEnabled") => ret'.value = FALSE
      /\ (AuthOff(kv) /\ ret'.op = "getAuthMethod")
           => ret'.value = Undefined ]_vars

\* the indexes of the entries the store holds for an app
EntriesOf(appDid) ==
  { i \in 1..Len(AppPermissions(kv)) : AppPermissions(kv)[i].appDid = appDid }

\* C39: after grantAppAccess has returned the store holds exactly one entry
\* for appDid, the entry lists (collectionId, documentId) exactly once, and
\* its permissions are the permissions just granted, whether or not the app
\* had an entry before.
C39_GrantStored ==
  (ret.op = "grantAppAccess" /\ ret.outcome = "returned") =>
    /\ Cardinality(EntriesOf(ret.args.appDid)) = 1
    /\ \A i \in EntriesOf(ret.args.appDid) :
         /\ Cardinality({ k \in 1..Len(AppPermissions(kv)[i].documents) :
              /\ AppPermissions(kv)[i].documents[k].collectionId
                   = ret.args.collectionId
              /\ AppPermissions(kv)[i].documents[k].documentId
                   = ret.args.documentId }) = 1
         /\ AppPermissions(kv)[i].permissions = ret.args.permissions

\* C38: for every external message whose type is not REQUEST_DID or
\* REQUEST_PERMISSION the external listener returns an error, does not pass
\* the message to the onMessage handler, and reads and writes no stored
\* state; so the only cases of the handler an external message of any type
\* runs are REQUEST_DID and REQUEST_PERMISSION.
C38_ExternalAllowlist ==
  [][ Called("onMessageExternal") =>
        /\ ret'.arg \notin { "REQUEST_DID", "REQUEST_PERMISSION" } =>
             /\ ret'.response = "error"
             /\ ~ret'.forwarded
             /\ ret'.handled = "" /\ ret'.called = << >>
             /\ storage' = storage /\ kv' = kv /\ nextId' = nextId
        /\ ret'.handled \in { "", "REQUEST_DID", "REQUEST_PERMISSION" }
        /\ ret'.response /= "did, publicKey, privateKey" ]_vars

\* C38 witness: an internal GENERATE_IDENTITY was handled and logged, and
\* then the same message from a web app was answered with an error, the
\* stored collection still holding that one record.
C38_ExternalGenerateRefused ==
  /\ ret.op = "onMessageExternal" /\ ret.arg = "GENERATE_IDENTITY"
  /\ ret.response = "error" /\ ~ret.forwarded
  /\ Len(Load(storage)) = 1
  /\ Load(storage)[1].type = "IDENTITY_CREATED"

====
